---- MODULE Spec2Model ----
(***************************************************************************)
(* CF-DoH-Lite: the DNS message codec (name reader, message decoder) and   *)
(* the multi-upstream resolver of the DoH forwarding worker.               *)
(*                                                                         *)
(* Byte buffers are sequences of naturals 0..255; the source's offsets are *)
(* 0-based, so the byte at source offset i is response[i + 1].  Strings    *)
(* are sequences of character codes.                                       *)
(***************************************************************************)
EXTENDS Integers, Sequences, FiniteSets, TLC

VARIABLES
    response,   \* decoder: the upstream response buffer handed to the parser
    offset,     \* name reader: the start offset handed to parseDnsName
    outcome,    \* decoder: what parseDnsResponse produced (status "none" before the call)
    nameRes,    \* name reader: what parseDnsName produced (loops 0 before the call)
    codec,      \* which copy of the codec (parseDnsName, parseDnsResponse) is deployed
    impl,       \* which /dns-query handler is deployed
    method,     \* the method of the request being handled
    key,        \* the URL of the request being handled (the cache key)
    behaviour,  \* what each upstream does with this request's attempt
    pc,         \* where the handler is: "idle", "fetch", "body", "done"
    idx,        \* the upstream of the attempt in flight (1-based position in the list)
    timers,     \* the attempts whose setTimeout is armed
    contacted,  \* the upstreams fetched so far for this request, in order
    fwd,        \* what forwardDnsQueryWithCacheControl returned: "none", "null", "data"
    cc,         \* the Cache-Control header of the upstream response last received
    reply,      \* what the handler gave back for this request
    cache,      \* the stored responses of caches.default and caches.open('dns-cache')
    pending,    \* the cache.put calls handed to context.waitUntil and not yet settled
    served,     \* requests handled so far
    rImpl,      \* which /resolve handler is deployed
    lk,         \* the A and the AAAA lookup of a /resolve request without a type
    sharedTimer,\* the one setTimeout both fetches of the reverse proxy share
    rReply,     \* what handleDomainResolve gave back
    domain,     \* encoder: the domain text handed to buildDnsQuery
    recordType, \* encoder: the record type text handed to buildDnsQuery
    packet,     \* encoder: what buildDnsQuery returned, and whether it was forwarded
    address     \* canonicalizer: the text parseIPv6 returned

decVars == <<response, offset, outcome, nameRes, codec>>

poolVars == <<impl, method, key, behaviour, pc, idx, timers, contacted, fwd, cc, reply,
              cache, pending, served>>

resVars == <<rImpl, lk, sharedTimer, rReply>>

encVars == <<domain, recordType, packet>>

ipVars == <<address>>

vars == <<response, offset, outcome, nameRes, codec, impl, method, key, behaviour, pc, idx,
          timers, contacted, fwd, cc, reply, cache, pending, served,
          rImpl, lk, sharedTimer, rReply, domain, recordType, packet, address>>

(***************************************************************************)
(* Bounds of the model.                                                    *)
(***************************************************************************)
\* items (questions, records, fragments) concatenated after the header
MaxItems == 3
\* largest QDCOUNT written in a generated header
MaxQd == 2
\* largest ANCOUNT written in a generated header
MaxAn == 3
\* bytes cut off the end of a generated message
MaxCut == 1
\* longest buffer handed to the name reader on its own
MaxNameBuf == 4
\* requests the worker handles one after the other
MaxRequests == 2
\* most labels of a name handed to the name reader
MaxNameLabels == 22

(***************************************************************************)
(* Program constants.                                                      *)
(***************************************************************************)
\* if (loops++ > 20) break;
LoopCap == 20
\* if (response.length < 12)
HeaderLen == 12
\* UPSTREAM_DOH_SERVERS has two entries
NumUpstreams == 2
\* const CACHE_TTL_SECONDS = 300
CACHE_TTL_SECONDS == 300
\* const MIN_CACHE_TTL_SECONDS = 60
MIN_CACHE_TTL_SECONDS == 60
\* const CACHE_MAX_AGE_SECONDS = 300
CACHE_MAX_AGE_SECONDS == 300

(***************************************************************************)
(* JavaScript primitives the parser relies on.                             *)
(***************************************************************************)
\* response[i] is defined only inside the typed array; outside it is undefined
InBuf(buf, i) == i >= 0 /\ i < Len(buf)

\* response[i] where undefined is coerced to 0 (operand of <<, |, and
\* String.fromCharCode(undefined) gives the character with code 0)
ByteAt(buf, i) == IF InBuf(buf, i) THEN buf[i + 1] ELSE 0

\* response[i] inside a template literal: -1 stands for the text "undefined"
ByteOrUndef(buf, i) == IF InBuf(buf, i) THEN buf[i + 1] ELSE -1

\* DataView.getUintN(off) throws a RangeError unless off..off+n-1 is inside
ViewOk(buf, off, n) == off >= 0 /\ off + n <= Len(buf)

getUint16(buf, off) == buf[off + 1] * 256 + buf[off + 2]

\* the unsigned 32-bit value, kept as its <<high, low>> 16-bit halves
getUint32(buf, off) == <<getUint16(buf, off), getUint16(buf, off + 2)>>

\* (len & 0xc0) === 0xc0
IsPointer(len) == (len \div 64) % 4 = 3

\* ((len & 0x3f) << 8) | response[current + 1]
PointerTarget(len, next) == (len % 64) * 256 + next

\* labels.join(".")
RECURSIVE JoinDot(_)
JoinDot(labels) ==
    IF labels = <<>> THEN <<>>
    ELSE IF Len(labels) = 1 THEN labels[1]
    ELSE labels[1] \o <<46>> \o JoinDot(Tail(labels))

\* the positions of the separators of text, with both ends as sentinels
dotsOf(text) == {i \in 1..Len(text) : text[i] = 46} \cup {0, Len(text) + 1}

\* the k-th smallest element of a set of positions (k counted from 0)
nthOf(ps, k) == CHOOSE i \in ps : Cardinality({j \in ps : j < i}) = k

\* domain.split('.'): the text between consecutive separators
splitDot(text) ==
    [k \in 1..(Cardinality(dotsOf(text)) - 1) |->
        SubSeq(text, nthOf(dotsOf(text), k - 1) + 1, nthOf(dotsOf(text), k) - 1)]

(***************************************************************************)
(* parseDnsName: the loop of the name reader.  The state s carries the     *)
(* locals of the function; oob records whether a byte outside the buffer   *)
(* was read.                                                               *)
(***************************************************************************)
\* mutant: a label read after a jump moves the resume offset
RECURSIVE parseDnsNameLoopResumeMoves(_, _)
parseDnsNameLoopResumeMoves(buf, s) ==
    IF s.loops > LoopCap THEN [s EXCEPT !.loops = @ + 1, !.capped = TRUE]
    ELSE
    LET s1 == [s EXCEPT !.loops = @ + 1]
        current == s.current
    IN  IF current >= Len(buf) THEN s1
        ELSE
        LET len == buf[current + 1] IN
        IF len = 0
        THEN [s1 EXCEPT !.finalOffset = IF s.jumped THEN @ ELSE current + 1]
        ELSE IF IsPointer(len)
        THEN parseDnsNameLoopResumeMoves(buf,
                [s1 EXCEPT !.finalOffset = IF s.jumped THEN @ ELSE current + 2,
                           !.current = PointerTarget(len, ByteAt(buf, current + 1)),
                           !.jumped = TRUE,
                           !.pointers = Append(@, <<current,
                                PointerTarget(len, ByteAt(buf, current + 1))>>),
                           !.oob = @ \/ ~InBuf(buf, current + 1)])
        ELSE parseDnsNameLoopResumeMoves(buf,
                [s1 EXCEPT !.labels = Append(@,
                                [i \in 1..len |-> ByteAt(buf, current + i)]),
                           !.current = current + 1 + len,
                           !.finalOffset = current + 1 + len,
                           !.oob = @ \/ ~InBuf(buf, current + len)])

RECURSIVE parseDnsNameLoop(_, _)
parseDnsNameLoop(buf, s) ==
    IF s.loops > LoopCap THEN [s EXCEPT !.loops = @ + 1, !.capped = TRUE]
    ELSE
    LET s1 == [s EXCEPT !.loops = @ + 1]
        current == s.current
    IN  IF current >= Len(buf) THEN s1
        ELSE
        LET len == buf[current + 1] IN
        IF len = 0
        THEN [s1 EXCEPT !.finalOffset = IF s.jumped THEN @ ELSE current + 1]
        ELSE IF IsPointer(len)
        THEN parseDnsNameLoop(buf,
                [s1 EXCEPT !.finalOffset = IF s.jumped THEN @ ELSE current + 2,
                           !.current = PointerTarget(len, ByteAt(buf, current + 1)),
                           !.jumped = TRUE,
                           !.pointers = Append(@, <<current,
                                PointerTarget(len, ByteAt(buf, current + 1))>>),
                           !.oob = @ \/ ~InBuf(buf, current + 1)])
        ELSE parseDnsNameLoop(buf,
                [s1 EXCEPT !.labels = Append(@,
                                [i \in 1..len |-> ByteAt(buf, current + i)]),
                           !.current = current + 1 + len,
                           !.finalOffset = IF s.jumped THEN @ ELSE current + 1 + len,
                           !.oob = @ \/ ~InBuf(buf, current + len)])

\* parseDnsName(response, offset): always returns an object, never null
parseDnsName(buf, off) ==
    LET s == parseDnsNameLoop(buf,
                [labels |-> <<>>, current |-> off, jumped |-> FALSE,
                 finalOffset |-> -1, loops |-> 0, capped |-> FALSE,
                 pointers |-> <<>>, oob |-> FALSE])
    IN  [status |-> "ok", name |-> JoinDot(s.labels), labels |-> s.labels,
         nextOffset |-> s.finalOffset, loops |-> s.loops, capped |-> s.capped,
         pointers |-> s.pointers, oob |-> s.oob]

(***************************************************************************)
(* The recursive copies of parseDnsName.  "cacheproxy" is                  *)
(* src/unnamed/part_000 (the same text as src/源码.js:273-296),            *)
(* "tokenworker" is the token-guarded worker of src/源码.js:1178-1213.     *)
(* Neither reads outside the buffer.  loops counts the iterations of the   *)
(* while loop over all nested calls; pointers lists the pointers followed. *)
(***************************************************************************)
\* return { name: parts.join("."), nextOffset: currentOffset }
nameObject(parts, currentOffset, steps, ptrs) ==
    [status |-> "ok", name |-> JoinDot(parts), labels |-> parts,
     nextOffset |-> currentOffset, loops |-> steps, capped |-> FALSE,
     pointers |-> ptrs, oob |-> FALSE]

\* return null
nameNull(steps, ptrs) ==
    [status |-> "null", name |-> <<>>, labels |-> <<>>, nextOffset |-> -1,
     loops |-> steps, capped |-> FALSE, pointers |-> ptrs, oob |-> FALSE]

\* the nested calls never return: the engine ends the request with
\* RangeError (maximum call stack size exceeded)
nameOverflow(steps, ptrs) ==
    [status |-> "overflow", name |-> <<>>, labels |-> <<>>, nextOffset |-> -1,
     loops |-> steps, capped |-> FALSE, pointers |-> ptrs, oob |-> FALSE]

\* for (let i = 1; i <= length; i++) label += String.fromCharCode(response[currentOffset + i])
labelAt(buf, currentOffset) ==
    [i \in 1..buf[currentOffset + 1] |-> buf[currentOffset + 1 + i]]

\* if (pointedName) parts.push(...pointedName.name.split(".")); currentOffset += 2; break;
afterPointer(parts, currentOffset, steps, pointedName) ==
    IF pointedName.status = "overflow"
    THEN nameOverflow(steps + pointedName.loops, pointedName.pointers)
    ELSE nameObject(IF pointedName.status = "ok"
                    THEN parts \o splitDot(pointedName.name) ELSE parts,
                    currentOffset + 2, steps + pointedName.loops, pointedName.pointers)

\* parseDnsName of the caching reverse proxy: the while loop of one call.
\* calls holds the start offsets of the calls on the stack: a nested call at
\* one of them repeats the same chain of calls for ever.
RECURSIVE parseDnsNameChecked(_, _, _, _, _, _)
RECURSIVE checkedPointer(_, _, _, _, _, _)
parseDnsNameChecked(buf, currentOffset, parts, steps, ptrs, calls) ==
    IF currentOffset >= Len(buf) THEN nameObject(parts, currentOffset, steps, ptrs)
    ELSE IF buf[currentOffset + 1] = 0
    THEN nameObject(parts, currentOffset + 1, steps + 1, ptrs)
    ELSE IF IsPointer(buf[currentOffset + 1])
    THEN checkedPointer(buf, currentOffset, parts, steps + 1, ptrs, calls)
    ELSE IF currentOffset + 1 + buf[currentOffset + 1] > Len(buf)
    THEN nameNull(steps + 1, ptrs)
    ELSE parseDnsNameChecked(buf, currentOffset + 1 + buf[currentOffset + 1],
            Append(parts, labelAt(buf, currentOffset)), steps + 1, ptrs, calls)

\* the pointer branch: both tests return null before the nested call; the
\* target is compared with the pointer's position, not with the call's start
checkedPointer(buf, currentOffset, parts, steps, ptrs, calls) ==
    IF currentOffset + 1 >= Len(buf) THEN nameNull(steps, ptrs)
    ELSE IF PointerTarget(buf[currentOffset + 1], buf[currentOffset + 2]) >= currentOffset
    THEN nameNull(steps, ptrs)
    ELSE IF PointerTarget(buf[currentOffset + 1], buf[currentOffset + 2]) \in calls
    THEN nameOverflow(steps, Append(ptrs, <<currentOffset,
            PointerTarget(buf[currentOffset + 1], buf[currentOffset + 2])>>))
    ELSE afterPointer(parts, currentOffset, steps,
            parseDnsNameChecked(buf,
                PointerTarget(buf[currentOffset + 1], buf[currentOffset + 2]), <<>>, 0,
                Append(ptrs, <<currentOffset,
                    PointerTarget(buf[currentOffset + 1], buf[currentOffset + 2])>>),
                calls \cup {PointerTarget(buf[currentOffset + 1], buf[currentOffset + 2])}))

\* parseDnsName of the token-guarded worker.  calls holds the start offsets
\* of the calls on the stack: a nested call at one of them repeats the same
\* chain of calls for ever.
RECURSIVE parseDnsNameRecursive(_, _, _, _, _, _)
RECURSIVE recursivePointer(_, _, _, _, _, _)
parseDnsNameRecursive(buf, currentOffset, parts, steps, ptrs, calls) ==
    IF currentOffset >= Len(buf) THEN nameObject(parts, currentOffset, steps, ptrs)
    ELSE IF buf[currentOffset + 1] = 0
    THEN nameObject(parts, currentOffset + 1, steps + 1, ptrs)
    ELSE IF IsPointer(buf[currentOffset + 1])
    THEN recursivePointer(buf, currentOffset, parts, steps + 1, ptrs, calls)
    ELSE IF currentOffset + buf[currentOffset + 1] >= Len(buf)
    THEN nameNull(steps + 1, ptrs)
    ELSE parseDnsNameRecursive(buf, currentOffset + 1 + buf[currentOffset + 1],
            Append(parts, labelAt(buf, currentOffset)), steps + 1, ptrs, calls)

\* the pointer branch: the target is not compared with the position
recursivePointer(buf, currentOffset, parts, steps, ptrs, calls) ==
    IF currentOffset + 1 >= Len(buf) THEN nameNull(steps, ptrs)
    ELSE IF PointerTarget(buf[currentOffset + 1], buf[currentOffset + 2]) \in calls
    THEN nameOverflow(steps, Append(ptrs, <<currentOffset,
            PointerTarget(buf[currentOffset + 1], buf[currentOffset + 2])>>))
    ELSE afterPointer(parts, currentOffset, steps,
            parseDnsNameRecursive(buf,
                PointerTarget(buf[currentOffset + 1], buf[currentOffset + 2]), <<>>, 0,
                Append(ptrs, <<currentOffset,
                    PointerTarget(buf[currentOffset + 1], buf[currentOffset + 2])>>),
                calls \cup {PointerTarget(buf[currentOffset + 1], buf[currentOffset + 2])}))

\* the parseDnsName of the deployed copy
parseDnsNameOf(c, buf, off) ==
    IF c = "worker" THEN parseDnsName(buf, off)
    ELSE IF c = "cacheproxy" THEN parseDnsNameChecked(buf, off, <<>>, 0, <<>>, {off})
    ELSE parseDnsNameRecursive(buf, off, <<>>, 0, <<>>, {off})

(***************************************************************************)
(* parseIPv6: the address canonicalizer used for AAAA records.             *)
(***************************************************************************)
HexDigit(d) == IF d < 10 THEN 48 + d ELSE 87 + d

\* Number.prototype.toString(16)
RECURSIVE ToHex(_)
ToHex(n) == IF n < 16 THEN <<HexDigit(n)>> ELSE ToHex(n \div 16) \o <<HexDigit(n % 16)>>

\* parts.join(":")
RECURSIVE JoinColon(_)
JoinColon(parts) ==
    IF parts = <<>> THEN <<>>
    ELSE IF Len(parts) = 1 THEN parts[1]
    ELSE parts[1] \o <<58>> \o JoinColon(Tail(parts))

\* mutant: a later run of the same length replaces the best one
RECURSIVE ZeroRunScanLast(_, _, _)
ZeroRunScanLast(parts, i, st) ==
    IF i >= 8 THEN st
    ELSE IF parts[i + 1] = <<48>>
    THEN LET cs == IF st.curStart = -1 THEN i ELSE st.curStart
             cl == st.curLen + 1
         IN  ZeroRunScanLast(parts, i + 1,
                [bestStart |-> IF cl >= st.bestLen THEN cs ELSE st.bestStart,
                 bestLen |-> IF cl >= st.bestLen THEN cl ELSE st.bestLen,
                 curStart |-> cs, curLen |-> cl])
    ELSE ZeroRunScanLast(parts, i + 1, [st EXCEPT !.curStart = -1, !.curLen = 0])

\* the scan for the longest run of "0" groups; i is the 0-based group index
RECURSIVE ZeroRunScan(_, _, _)
ZeroRunScan(parts, i, st) ==
    IF i >= 8 THEN st
    ELSE IF parts[i + 1] = <<48>>
    THEN LET cs == IF st.curStart = -1 THEN i ELSE st.curStart
             cl == st.curLen + 1
         IN  ZeroRunScan(parts, i + 1,
                [bestStart |-> IF cl > st.bestLen THEN cs ELSE st.bestStart,
                 bestLen |-> IF cl > st.bestLen THEN cl ELSE st.bestLen,
                 curStart |-> cs, curLen |-> cl])
    ELSE ZeroRunScan(parts, i + 1, [st EXCEPT !.curStart = -1, !.curLen = 0])

\* the length of the run of ':' that starts at 1-based index i of text
RECURSIVE ColonRun(_, _)
ColonRun(text, i) ==
    IF i <= Len(text) /\ text[i] = 58 THEN 1 + ColonRun(text, i + 1) ELSE 0

\* text.replace(/:{3,}/, "::"): the first run of three or more colons
RECURSIVE ReplaceColons(_, _)
ReplaceColons(text, i) ==
    IF i > Len(text) THEN text
    ELSE LET run == ColonRun(text, i) IN
         IF run >= 3
         THEN SubSeq(text, 1, i - 1) \o <<58, 58>> \o SubSeq(text, i + run, Len(text))
         ELSE ReplaceColons(text, i + (IF run = 0 THEN 1 ELSE run))

\* parts.splice(bestStart, bestLen, ""), unshift("") and push("") when the
\* run touches the start or the end, then join and collapse the colons
elideZeroRun(parts, st) ==
    IF st.bestLen > 1
    THEN ReplaceColons(JoinColon(
            (IF st.bestStart = 0 THEN << <<>> >> ELSE <<>>)
            \o SubSeq(parts, 1, st.bestStart) \o << <<>> >>
            \o SubSeq(parts, st.bestStart + st.bestLen + 1, 8)
            \o (IF st.bestStart + st.bestLen = 8 THEN << <<>> >> ELSE <<>>)), 1)
    ELSE ReplaceColons(JoinColon(parts), 1)

\* the canonical text of the eight groups
canonicalGroups(parts) ==
    elideZeroRun(parts, ZeroRunScan(parts, 0,
        [bestStart |-> -1, bestLen |-> 0, curStart |-> -1, curLen |-> 0]))

parseIPv6(buf, off) ==
    canonicalGroups([i \in 1..8 |->
        ToHex(ByteAt(buf, off + (i - 1) * 2) * 256 + ByteAt(buf, off + (i - 1) * 2 + 1))])

(***************************************************************************)
(* The message decoder.                                                    *)
(***************************************************************************)
\* skipDnsName(response, offset)
RECURSIVE skipDnsName(_, _)
skipDnsName(buf, current) ==
    IF current < Len(buf)
    THEN LET len == buf[current + 1] IN
         IF len = 0 THEN current + 1
         ELSE IF IsPointer(len) THEN current + 2
         ELSE skipDnsName(buf, current + len + 1)
    ELSE current

\* for (let i = 0; i < qcount; i++) offset = skipDnsName(response, offset) + 4;
RECURSIVE skipQuestions(_, _, _)
skipQuestions(buf, off, qcount) ==
    IF qcount = 0 THEN off
    ELSE skipQuestions(buf, skipDnsName(buf, off) + 4, qcount - 1)

\* data = cnameRes ? cnameRes.name : null  (cnameRes is never null)
cnameData(cnameRes) == [kind |-> "name", v |-> cnameRes.name, oob |-> cnameRes.oob]

\* the RDATA branch of parseDnsAnswer: data stays null unless a branch matches
recordData(buf, type, dataLen, current) ==
    IF type = 1 /\ dataLen = 4
    THEN [kind |-> "A", v |-> [i \in 1..4 |-> ByteOrUndef(buf, current + i - 1)],
          oob |-> ~InBuf(buf, current + 3)]
    ELSE IF type = 28 /\ dataLen = 16
    THEN [kind |-> "AAAA", v |-> parseIPv6(buf, current),
          oob |-> ~InBuf(buf, current + 15)]
    ELSE IF type = 5
    THEN cnameData(parseDnsName(buf, current))
    ELSE [kind |-> "null", v |-> <<>>, oob |-> FALSE]

\* mutant: the next record is taken to start where the RDATA starts
answerRecordKeepsOffset(off, nameRes_, type, ttl, dataLen, data) ==
    [threw |-> FALSE, at |-> off, name |-> nameRes_.name, type |-> type,
     ttl |-> ttl, data |-> [kind |-> data.kind, v |-> data.v],
     nextOffset |-> nameRes_.nextOffset + 10,
     oob |-> nameRes_.oob \/ data.oob]

\* the object parseDnsAnswer returns
answerRecord(off, nameRes_, type, ttl, dataLen, data) ==
    [threw |-> FALSE, at |-> off, name |-> nameRes_.name, type |-> type,
     ttl |-> ttl, data |-> [kind |-> data.kind, v |-> data.v],
     nextOffset |-> nameRes_.nextOffset + 10 + dataLen,
     oob |-> nameRes_.oob \/ data.oob]

\* parseDnsAnswer once type and dataLen are read
answerWithData(buf, off, nameRes_, type, ttl, dataLen) ==
    answerRecord(off, nameRes_, type, ttl, dataLen,
                 recordData(buf, type, dataLen, nameRes_.nextOffset + 10))

\* parseDnsAnswer after the name: the three DataView reads; threw = one of
\* them raised RangeError
answerAfterName(buf, off, nameRes_) ==
    IF ~ViewOk(buf, nameRes_.nextOffset, 10)
    THEN [threw |-> TRUE, at |-> off, oob |-> nameRes_.oob]
    ELSE answerWithData(buf, off, nameRes_,
            getUint16(buf, nameRes_.nextOffset),
            getUint32(buf, nameRes_.nextOffset + 4),
            getUint16(buf, nameRes_.nextOffset + 8))

\* parseDnsAnswer(response, offset)
parseDnsAnswer(buf, off) == answerAfterName(buf, off, parseDnsName(buf, off))

\* for (let i = 0; i < ancount && offset < response.length; i++) { ... }
RECURSIVE readAnswers(_, _, _, _)
RECURSIVE pushAnswer(_, _, _, _)
readAnswers(buf, off, left, acc) ==
    IF left = 0 \/ off >= Len(buf) THEN acc
    ELSE pushAnswer(buf, left, acc, parseDnsAnswer(buf, off))

\* if (answer) { answers.push(answer); offset = answer.nextOffset; }
pushAnswer(buf, left, acc, answer) ==
    IF answer.threw
    THEN [acc EXCEPT !.threw = TRUE, !.oob = @ \/ answer.oob]
    ELSE readAnswers(buf, answer.nextOffset, left - 1,
            [acc EXCEPT !.answers = Append(@, answer), !.oob = @ \/ answer.oob])

\* mutant: the length check is off by one
tooShortOffByOne(buf) == Len(buf) < HeaderLen - 1

\* if (response.length < 12) return { status: "error" }
tooShort(buf) == Len(buf) < HeaderLen

\* mutant: the mask is 0xf0 instead of 0x0f
rcodeOfHighNibble(buf) == (getUint16(buf, 2) \div 16) % 16

\* const rcode = view.getUint16(2, false) & 0x0f;
rcodeOf(buf) == getUint16(buf, 2) % 16

\* const qcount = view.getUint16(4, false);
qcountOf(buf) == getUint16(buf, 4)

\* const ancount = view.getUint16(6, false);
ancountOf(buf) == getUint16(buf, 6)

\* mutant: the test reads QDCOUNT instead of ANCOUNT
noAnswersReadsQdcount(buf) == getUint16(buf, 4) = 0

\* if (ancount === 0) return { status: "no_records", answers: [] }
noAnswers(buf) == ancountOf(buf) = 0

\* return { domain, type, status: "success", count: ancount, answers }
successOutcome(buf, got) ==
    IF got.threw
    THEN [status |-> "throw", count |-> -1, answers |-> got.answers,
          headerRead |-> TRUE, oob |-> got.oob]
    ELSE [status |-> "success", count |-> ancountOf(buf),
          answers |-> got.answers, headerRead |-> TRUE, oob |-> got.oob]

\* parseDnsResponse(response, domain, recordType).  status "throw" stands for
\* an exception leaving the function; count -1 for a result without count.
parseDnsResponse(buf) ==
    IF tooShort(buf)
    THEN [status |-> "error", count |-> -1, answers |-> <<>>,
          headerRead |-> FALSE, oob |-> FALSE]
    ELSE IF ~ViewOk(buf, 2, 2)
    THEN [status |-> "throw", count |-> -1, answers |-> <<>>,
          headerRead |-> TRUE, oob |-> FALSE]
    ELSE IF rcodeOf(buf) # 0
    THEN [status |-> "error", count |-> -1, answers |-> <<>>,
          headerRead |-> TRUE, oob |-> FALSE]
    ELSE IF ~ViewOk(buf, 4, 4)
    THEN [status |-> "throw", count |-> -1, answers |-> <<>>,
          headerRead |-> TRUE, oob |-> FALSE]
    ELSE IF noAnswers(buf)
    THEN [status |-> "no_records", count |-> -1, answers |-> <<>>,
          headerRead |-> TRUE, oob |-> FALSE]
    ELSE successOutcome(buf,
            readAnswers(buf, skipQuestions(buf, HeaderLen, qcountOf(buf)),
                ancountOf(buf), [answers |-> <<>>, threw |-> FALSE, oob |-> FALSE]))

\* compressIPv6: the scan for the longest run of "0" parts
RECURSIVE compressScan(_, _, _)
compressScan(parts, i, st) ==
    IF i >= Len(parts) THEN st
    ELSE IF parts[i + 1] = <<48>>
    THEN compressScan(parts, i + 1,
            IF st.currentZeroStart = -1
            THEN [st EXCEPT !.currentZeroStart = i, !.currentZeroLength = 1]
            ELSE [st EXCEPT !.currentZeroLength = @ + 1])
    ELSE compressScan(parts, i + 1,
            [maxZeroStart |-> IF st.currentZeroLength > st.maxZeroLength
                              THEN st.currentZeroStart ELSE st.maxZeroStart,
             maxZeroLength |-> IF st.currentZeroLength > st.maxZeroLength
                               THEN st.currentZeroLength ELSE st.maxZeroLength,
             currentZeroStart |-> -1, currentZeroLength |-> 0])

\* the check after the loop, for a run that reaches the last part
compressBest(st) ==
    IF st.currentZeroLength > st.maxZeroLength
    THEN [st EXCEPT !.maxZeroStart = st.currentZeroStart,
                    !.maxZeroLength = st.currentZeroLength]
    ELSE st

\* [...parts.slice(0, maxZeroStart), "", ...parts.slice(maxZeroStart + maxZeroLength)].join(":")
compressJoin(parts, st) ==
    IF st.maxZeroLength > 1
    THEN JoinColon(SubSeq(parts, 1, st.maxZeroStart) \o << <<>> >>
                   \o SubSeq(parts, st.maxZeroStart + st.maxZeroLength + 1, Len(parts)))
    ELSE JoinColon(parts)

\* compressIPv6(parts.join(":")): the split gives the parts back
compressIPv6(parts) ==
    compressJoin(parts, compressBest(compressScan(parts, 0,
        [maxZeroStart |-> -1, maxZeroLength |-> 0,
         currentZeroStart |-> -1, currentZeroLength |-> 0])))

\* parseRecordData, case 28: the eight parts in hex, then compressIPv6
recordDataAAAA(buf, off) ==
    compressIPv6([i \in 1..8 |->
        ToHex(ByteAt(buf, off + (i - 1) * 2) * 256 + ByteAt(buf, off + (i - 1) * 2 + 1))])

(***************************************************************************)
(* The decoder of the caching reverse proxy (src/unnamed/part_000, the     *)
(* same text as src/源码.js:221-335).  It tests every length before it     *)
(* reads, so it reads no byte outside the buffer.                          *)
(***************************************************************************)
\* return null of parseRecordData
nullData == [kind |-> "null", v |-> <<>>, oob |-> FALSE, threw |-> FALSE]

\* nameResult ? nameResult.name : null; a nested call that never returns
\* ends the request
nameData(nameResult) ==
    IF nameResult.status = "overflow"
    THEN [kind |-> "null", v |-> <<>>, oob |-> FALSE, threw |-> TRUE]
    ELSE IF nameResult.status = "null" THEN nullData
    ELSE [kind |-> "name", v |-> nameResult.name, oob |-> FALSE, threw |-> FALSE]

\* the decimal text of a number
RECURSIVE decimal(_)
decimal(n) == IF n < 10 THEN <<48 + n>> ELSE decimal(n \div 10) \o <<48 + (n % 10)>>

\* mxNameResult ? `${preference} ${mxNameResult.name}` : null
mxData(preference, mxNameResult) ==
    IF mxNameResult.status = "overflow"
    THEN [kind |-> "null", v |-> <<>>, oob |-> FALSE, threw |-> TRUE]
    ELSE IF mxNameResult.status = "null" THEN nullData
    ELSE [kind |-> "MX", v |-> decimal(preference) \o <<32>> \o mxNameResult.name,
          oob |-> FALSE, threw |-> FALSE]

\* case 16: the character-strings of the RDATA joined by a space
RECURSIVE txtData(_, _, _, _)
txtData(buf, txtOffset, end, acc) ==
    IF txtOffset >= end THEN acc
    ELSE IF buf[txtOffset + 1] = 0 \/ txtOffset + 1 + buf[txtOffset + 1] > end THEN acc
    ELSE txtData(buf, txtOffset + 1 + buf[txtOffset + 1], end,
            (IF acc = <<>> THEN <<>> ELSE acc \o <<32>>)
            \o SubSeq(buf, txtOffset + 2, txtOffset + 1 + buf[txtOffset + 1]))

\* parseRecordData(response, offset, type, rdlength)
parseRecordData(buf, off, type, rdlength) ==
    IF type = 1
    THEN IF rdlength # 4 THEN nullData
         ELSE [kind |-> "A", v |-> [i \in 1..4 |-> buf[off + i]],
               oob |-> FALSE, threw |-> FALSE]
    ELSE IF type = 28
    THEN IF rdlength # 16 THEN nullData
         ELSE [kind |-> "AAAA", v |-> recordDataAAAA(buf, off),
               oob |-> FALSE, threw |-> FALSE]
    ELSE IF type \in {5, 2}
    THEN nameData(parseDnsNameChecked(buf, off, <<>>, 0, <<>>, {off}))
    ELSE IF type = 16
    THEN [kind |-> "TXT", v |-> txtData(buf, off, off + rdlength, <<>>),
          oob |-> FALSE, threw |-> FALSE]
    ELSE IF type = 15
    THEN IF rdlength < 2 THEN nullData
         ELSE mxData(getUint16(buf, off),
                     parseDnsNameChecked(buf, off + 2, <<>>, 0, <<>>, {off + 2}))
    ELSE nullData

\* return null of parseDnsAnswer
answerNull(off) == [threw |-> FALSE, at |-> off, oob |-> FALSE]

\* an exception leaves parseDnsAnswer
answerThrew(off) == [threw |-> TRUE, at |-> off, oob |-> FALSE]

\* if (answer) ... else break
isNull(answer) == ~answer.threw /\ "name" \notin DOMAIN answer

\* parseDnsAnswer once the RDATA is known to lie inside the buffer
checkedRecord(off, nameResult, type, ttl, rdlength, data) ==
    IF data.threw THEN answerThrew(off)
    ELSE answerRecord(off, nameResult, type, ttl, rdlength, data)

\* if (offset + rdlength > response.length) return null;
checkedWithData(buf, off, nameResult, type, ttl, rdlength) ==
    IF nameResult.nextOffset + 10 + rdlength > Len(buf) THEN answerNull(off)
    ELSE checkedRecord(off, nameResult, type, ttl, rdlength,
            parseRecordData(buf, nameResult.nextOffset + 10, type, rdlength))

\* if (!nameResult) return null; if (offset + 10 > response.length) return null;
checkedAfterName(buf, off, nameResult) ==
    IF nameResult.status = "overflow" THEN answerThrew(off)
    ELSE IF nameResult.status = "null" THEN answerNull(off)
    ELSE IF nameResult.nextOffset + 10 > Len(buf) THEN answerNull(off)
    ELSE checkedWithData(buf, off, nameResult,
            getUint16(buf, nameResult.nextOffset),
            getUint32(buf, nameResult.nextOffset + 4),
            getUint16(buf, nameResult.nextOffset + 8))

\* parseDnsAnswer(response, offset) of the caching reverse proxy
parseDnsAnswerChecked(buf, off) ==
    IF off >= Len(buf) THEN answerNull(off)
    ELSE checkedAfterName(buf, off, parseDnsNameChecked(buf, off, <<>>, 0, <<>>, {off}))

\* for (let i = 0; i < ancount && offset < response.length; i++) { ... }
RECURSIVE readAnswersChecked(_, _, _, _)
RECURSIVE pushAnswerChecked(_, _, _, _)
readAnswersChecked(buf, off, left, acc) ==
    IF left = 0 \/ off >= Len(buf) THEN acc
    ELSE pushAnswerChecked(buf, left, acc, parseDnsAnswerChecked(buf, off))

\* if (answer) { answers.push(answer); offset = answer.nextOffset; } else break;
pushAnswerChecked(buf, left, acc, answer) ==
    IF answer.threw THEN [acc EXCEPT !.threw = TRUE]
    ELSE IF isNull(answer) THEN acc
    ELSE readAnswersChecked(buf, answer.nextOffset, left - 1,
            [acc EXCEPT !.answers = Append(@, answer)])

\* parseDnsResponse of the caching reverse proxy: one question is skipped,
\* whatever QDCOUNT says (let offset = skipDnsName(response, 12) + 4)
parseDnsResponseChecked(buf) ==
    IF tooShort(buf)
    THEN [status |-> "error", count |-> -1, answers |-> <<>>,
          headerRead |-> FALSE, oob |-> FALSE]
    ELSE IF rcodeOf(buf) # 0
    THEN [status |-> "error", count |-> -1, answers |-> <<>>,
          headerRead |-> TRUE, oob |-> FALSE]
    ELSE IF noAnswers(buf)
    THEN [status |-> "no_records", count |-> -1, answers |-> <<>>,
          headerRead |-> TRUE, oob |-> FALSE]
    ELSE successOutcome(buf,
            readAnswersChecked(buf, skipDnsName(buf, HeaderLen) + 4,
                ancountOf(buf), [answers |-> <<>>, threw |-> FALSE, oob |-> FALSE]))

\* the parseDnsResponse of the deployed copy
parseDnsResponseOf(c, buf) ==
    IF c = "worker" THEN parseDnsResponse(buf) ELSE parseDnsResponseChecked(buf)

\* no call made yet
NoOutcome ==
    [status |-> "none", count |-> -1, answers |-> <<>>, headerRead |-> FALSE, oob |-> FALSE]

NoName ==
    [status |-> "none", name |-> <<>>, labels |-> <<>>, nextOffset |-> -1, loops |-> 0, capped |-> FALSE,
     pointers |-> <<>>, oob |-> FALSE]

\* buildDnsQuery has not been called
NoPacket == [status |-> "none", bytes |-> <<>>, sent |-> FALSE]

\* parseIPv6 has not been called
NoAddress == [done |-> FALSE, impl |-> "worker", text |-> <<>>]

EncoderQuiet ==
    /\ domain = <<>>
    /\ recordType = <<>>
    /\ packet = NoPacket
    /\ address = NoAddress

Lookups == {"A", "AAAA"}

NoResolveReply == [kind |-> "none", status |-> 0, results |-> [t \in Lookups |-> "none"]]

\* no /resolve request is being handled
ResolveQuiet ==
    /\ rImpl = "worker"
    /\ lk = [t \in Lookups |-> [pc |-> "idle"]]
    /\ sharedTimer = FALSE
    /\ rReply = NoResolveReply

\* the decoder and the name reader are not part of a run of the resolver
DecoderQuiet ==
    /\ response = <<>>
    /\ offset = 0
    /\ outcome = NoOutcome
    /\ nameRes = NoName
    /\ codec = "worker"

(***************************************************************************)
(* The /dns-query handlers and their upstream loop.                        *)
(*   "worker"     src/源码.js: handleDnsQuery and                         *)
(*                forwardDnsQueryWithCacheControl                          *)
(*   "proxy"      src/dns-proxy.js: handleDnsQuery                         *)
(*   "cacheproxy" src/unnamed/part_000: handleDnsQuery                     *)
(* An upstream's behaviour for one attempt: "ok" answers 2xx with its body *)
(* within the timeout, "status" answers a non-2xx status, "error" makes    *)
(* fetch reject, "timeout" sends nothing before the timer fires,           *)
(* "bodyerror" answers 2xx and then breaks while the body is read, "stall" *)
(* answers 2xx and then never sends the body.                              *)
(***************************************************************************)
Impls == {"worker", "proxy", "cacheproxy"}

Methods == {"GET", "POST"}

Keys == {"q1", "q2"}

Behaviours == {"ok", "status", "error", "timeout", "bodyerror", "stall"}

Upstreams == 1..NumUpstreams

\* max-age values an upstream may send
MaxAges == {30, 200, 301}

\* response.headers.get("Cache-Control"): absent (or empty), without a
\* max-age directive (maxAge -1), or with max-age=m
CacheControls ==
    {[present |-> FALSE, maxAge |-> -1], [present |-> TRUE, maxAge |-> -1]}
    \cup {[present |-> TRUE, maxAge |-> m] : m \in MaxAges}

Min(a, b) == IF a < b THEN a ELSE b

Max(a, b) == IF a > b THEN a ELSE b

\* mutant: the lower limit Math.max(MIN_CACHE_TTL_SECONDS, ...) is missing
cacheTtlNoFloor(c) ==
    IF c.present /\ c.maxAge >= 0
    THEN Min(c.maxAge, CACHE_TTL_SECONDS)
    ELSE CACHE_TTL_SECONDS

\* let cacheTtl = CACHE_TTL_SECONDS; if (upstreamCacheControl) { match max-age ... }
cacheTtl(c) ==
    IF c.present /\ c.maxAge >= 0
    THEN Max(MIN_CACHE_TTL_SECONDS, Min(c.maxAge, CACHE_TTL_SECONDS))
    ELSE CACHE_TTL_SECONDS

NoReply == [kind |-> "none", status |-> 0, from |-> 0, ttl |-> -1, cached |-> FALSE]

\* an exception leaves the handler
ThrowReply == [kind |-> "throw", status |-> 0, from |-> 0, ttl |-> -1, cached |-> FALSE]

\* new Response(null, { status: 502 })
FailureReply == [kind |-> "response", status |-> 502, from |-> 0, ttl |-> -1, cached |-> FALSE]

\* the 200 response built from upstream i; ttl is the max-age of its
\* Cache-Control header, -1 when it has none
OkReply(i, ttl) == [kind |-> "response", status |-> 200, from |-> i, ttl |-> ttl, cached |-> FALSE]

\* the response rebuilt from a cache entry
CachedReply(e, ttl) ==
    [kind |-> "response", status |-> e.status, from |-> e.from, ttl |-> ttl, cached |-> TRUE]

\* cache.match(request): only a GET request can match
CacheHit(m, k) ==
    /\ impl \in {"proxy", "cacheproxy"}
    /\ m = "GET"
    /\ \E e \in cache.default : e.key = k

CacheEntry(k) == CHOOSE e \in cache.default : e.key = k

\* the resolver's variables before the first request
PoolStart ==
    /\ impl \in Impls
    /\ method = "GET"
    /\ key = "q1"
    /\ behaviour = [i \in Upstreams |-> "ok"]
    /\ pc = "idle"
    /\ idx = 0
    /\ timers = {}
    /\ contacted = <<>>
    /\ fwd = "none"
    /\ cc = [present |-> FALSE, maxAge |-> -1]
    /\ reply = NoReply
    /\ cache = [default |-> {}, named |-> {}]
    /\ pending = {}
    /\ served = 0

\* const controller = new AbortController(); setTimeout(...); fetch(dohServer, ...)
StartAttempt(i, tm) ==
    /\ pc' = "fetch"
    /\ idx' = i
    /\ timers' = tm \cup {i}
    /\ contacted' = Append(contacted, i)

\* mutant: after a failure the same upstream is tried again, and after the
\* last one the first
FailRetriesSame(why, tm) ==
    /\ StartAttempt(IF idx < NumUpstreams THEN idx ELSE 1, tm)
    /\ UNCHANGED <<reply, fwd>>

\* the attempt in flight ended in failure `why`; tm are the timers left armed
Fail(why, tm) ==
    IF impl = "proxy" /\ why \in {"error", "timeout"}
    THEN \* no try/catch around await fetch(): the rejection leaves the handler
         /\ reply' = ThrowReply
         /\ pc' = "done"
         /\ timers' = tm
         /\ UNCHANGED <<idx, contacted, fwd>>
    ELSE IF idx < NumUpstreams
    THEN \* catch (error) { continue; }  or the fall-through after !response.ok
         /\ StartAttempt(idx + 1, tm)
         /\ UNCHANGED <<reply, fwd>>
    ELSE \* the loop is over
         /\ pc' = "done"
         /\ timers' = tm
         /\ UNCHANGED <<idx, contacted>>
         /\ IF impl = "worker"
            THEN \* return null; then const { response, upstreamCacheControl } = null
                 fwd' = "null" /\ reply' = ThrowReply
            ELSE fwd' = fwd /\ reply' = FailureReply

\* the handler is called with a request
Receive(m, k, beh) ==
    /\ pc = "idle"
    /\ method' = m
    /\ key' = k
    /\ behaviour' = beh
    /\ IF CacheHit(m, k)
       THEN /\ reply' = CachedReply(CacheEntry(k),
                            IF impl = "proxy" THEN CacheEntry(k).ttl
                            ELSE CACHE_MAX_AGE_SECONDS)
            /\ pc' = "done"
            /\ UNCHANGED <<idx, timers, contacted>>
       ELSE /\ StartAttempt(1, timers)
            /\ reply' = reply
    /\ UNCHANGED <<impl, fwd, cc, cache, pending, served>>
    /\ UNCHANGED decVars
    /\ UNCHANGED resVars
    /\ UNCHANGED encVars
    /\ UNCHANGED ipVars

\* await fetch(...) resolves: clearTimeout(timeoutId); if (response.ok) ...
FetchResolves(c) ==
    /\ pc = "fetch"
    /\ behaviour[idx] \in {"ok", "status", "bodyerror", "stall"}
    /\ IF behaviour[idx] = "status"
       THEN /\ Fail("status", timers \ {idx})
            /\ UNCHANGED <<cc, pending>>
       ELSE /\ cc' = c
            /\ timers' = timers \ {idx}
            /\ UNCHANGED <<idx, contacted, fwd>>
            /\ IF impl = "worker"
               THEN \* await response.arrayBuffer()
                    pc' = "body" /\ UNCHANGED <<reply, pending>>
               ELSE IF impl = "proxy"
               THEN /\ pc' = "done"
                    /\ reply' = OkReply(idx, cacheTtl(c))
                    /\ pending' = IF method = "GET"
                                  THEN pending \cup {[into |-> "default", key |-> key,
                                            method |-> method, status |-> 200,
                                            from |-> idx, ttl |-> cacheTtl(c),
                                            body |-> behaviour[idx]]}
                                  ELSE pending
               ELSE \* headers: response.headers, the upstream's own Cache-Control
                    /\ pc' = "done"
                    /\ reply' = OkReply(idx, c.maxAge)
                    /\ pending' = pending \cup {[into |-> "named", key |-> key,
                                            method |-> method, status |-> 200,
                                            from |-> idx, ttl |-> CACHE_MAX_AGE_SECONDS,
                                            body |-> behaviour[idx]]}
    /\ UNCHANGED <<impl, method, key, behaviour, cache, served>>
    /\ UNCHANGED decVars
    /\ UNCHANGED resVars
    /\ UNCHANGED encVars
    /\ UNCHANGED ipVars

\* await fetch(...) rejects with a transport error; clearTimeout is skipped
FetchRejects ==
    /\ pc = "fetch"
    /\ behaviour[idx] = "error"
    /\ Fail("error", timers)
    /\ UNCHANGED <<impl, method, key, behaviour, cc, cache, pending, served>>
    /\ UNCHANGED decVars
    /\ UNCHANGED resVars
    /\ UNCHANGED encVars
    /\ UNCHANGED ipVars

\* setTimeout(() => controller.abort(), TIMEOUT_MS) fires: fetch rejects
TimerFires ==
    /\ pc = "fetch"
    /\ idx \in timers
    /\ behaviour[idx] = "timeout"
    /\ Fail("timeout", timers \ {idx})
    /\ UNCHANGED <<impl, method, key, behaviour, cc, cache, pending, served>>
    /\ UNCHANGED decVars
    /\ UNCHANGED resVars
    /\ UNCHANGED encVars
    /\ UNCHANGED ipVars

\* the timer of an attempt that is over fires: abort() of a settled fetch
StaleTimerFires(i) ==
    /\ i \in timers
    /\ i # idx \/ pc # "fetch"
    /\ timers' = timers \ {i}
    /\ UNCHANGED <<impl, method, key, behaviour, pc, idx, contacted, fwd, cc, reply,
                   cache, pending, served>>
    /\ UNCHANGED decVars
    /\ UNCHANGED resVars
    /\ UNCHANGED encVars
    /\ UNCHANGED ipVars

\* await response.arrayBuffer() resolves; handleDnsQuery builds its response
BodyArrives ==
    /\ pc = "body"
    /\ behaviour[idx] = "ok"
    /\ fwd' = "data"
    /\ reply' = OkReply(idx, cacheTtl(cc))
    /\ pc' = "done"
    /\ UNCHANGED <<impl, method, key, behaviour, idx, timers, contacted, cc, cache,
                   pending, served>>
    /\ UNCHANGED decVars
    /\ UNCHANGED resVars
    /\ UNCHANGED encVars
    /\ UNCHANGED ipVars

\* await response.arrayBuffer() rejects inside the try block
BodyFails ==
    /\ pc = "body"
    /\ behaviour[idx] = "bodyerror"
    /\ Fail("bodyerror", timers)
    /\ UNCHANGED <<impl, method, key, behaviour, cc, cache, pending, served>>
    /\ UNCHANGED decVars
    /\ UNCHANGED resVars
    /\ UNCHANGED encVars
    /\ UNCHANGED ipVars

\* a cache.put handed to context.waitUntil stores its entry
CachePut(p) ==
    /\ p \in pending
    /\ p.method = "GET"
    /\ p.body = "ok"
    /\ cache' = [cache EXCEPT ![p.into] =
                    {e \in @ : e.key # p.key}
                    \cup {[key |-> p.key, status |-> p.status, from |-> p.from,
                           ttl |-> p.ttl]}]
    /\ pending' = pending \ {p}
    /\ UNCHANGED <<impl, method, key, behaviour, pc, idx, timers, contacted, fwd, cc,
                   reply, served>>
    /\ UNCHANGED decVars
    /\ UNCHANGED resVars
    /\ UNCHANGED encVars
    /\ UNCHANGED ipVars

\* a cache.put rejects: the request is not a GET, or the body stream breaks
CachePutRejects(p) ==
    /\ p \in pending
    /\ p.method # "GET" \/ p.body = "bodyerror"
    /\ pending' = pending \ {p}
    /\ UNCHANGED <<impl, method, key, behaviour, pc, idx, timers, contacted, fwd, cc,
                   reply, cache, served>>
    /\ UNCHANGED decVars
    /\ UNCHANGED resVars
    /\ UNCHANGED encVars
    /\ UNCHANGED ipVars

\* the handler has returned and the worker waits for the next request; the
\* locals of the finished call are gone, and a cache.put whose body never
\* arrives stays unsettled for good
NextRequest ==
    /\ pc = "done"
    /\ served < MaxRequests - 1
    /\ served' = served + 1
    /\ pc' = "idle"
    /\ method' = "GET"
    /\ key' = "q1"
    /\ behaviour' = [i \in Upstreams |-> "ok"]
    /\ idx' = 0
    /\ timers' = {}
    /\ contacted' = <<>>
    /\ fwd' = "none"
    /\ cc' = [present |-> FALSE, maxAge |-> -1]
    /\ reply' = NoReply
    /\ pending' = {p \in pending : p.body # "stall"}
    /\ UNCHANGED <<impl, cache>>
    /\ UNCHANGED decVars
    /\ UNCHANGED resVars
    /\ UNCHANGED encVars
    /\ UNCHANGED ipVars

PoolNext ==
    \/ \E m \in Methods, k \in Keys, beh \in [Upstreams -> Behaviours] : Receive(m, k, beh)
    \/ \E c \in CacheControls : FetchResolves(c)
    \/ FetchRejects
    \/ TimerFires
    \/ \E i \in Upstreams : StaleTimerFires(i)
    \/ BodyArrives
    \/ BodyFails
    \/ \E p \in pending : CachePut(p)
    \/ \E p \in pending : CachePutRejects(p)
    \/ NextRequest

PoolInit == PoolStart /\ DecoderQuiet /\ ResolveQuiet /\ EncoderQuiet

PoolSpec == PoolInit /\ [][PoolNext]_vars

\* the resolver is not part of a run of the decoder
PoolIdle == PoolStart /\ impl = "worker"

PoolQuiet == PoolIdle /\ ResolveQuiet /\ EncoderQuiet

(***************************************************************************)
(* Response buffers the decoder is run on: a header, up to MaxItems items  *)
(* (questions, answer records, fragments), and up to MaxCut bytes cut off  *)
(* the end; and every prefix of a header shorter than 12 bytes.            *)
(***************************************************************************)
\* low byte of the flags field: RA with RCODE 0, RA with RCODE 3 (NXDOMAIN),
\* RCODE 2 (SERVFAIL), RCODE 0 with the AD bit set
FlagsLow == {128, 131, 2, 32}

Header(flagsLow, qd, an) == <<0, 7, 129, flagsLow, 0, qd, 0, an, 0, 0, 0, 0>>

\* the question "a" IN A
ItemQuestion == <<1, 97, 0, 0, 1, 0, 1>>
\* an A record whose name is a pointer to offset 12
ItemA == <<192, 12, 0, 1, 0, 1, 0, 0, 0, 60, 0, 4, 10, 0, 0, 1>>
\* a CNAME record for the root name whose target is a pointer to offset 12
ItemCname == <<0, 0, 5, 0, 1, 0, 0, 0, 60, 0, 2, 192, 12>>
\* a record of the unsupported type 99 with two bytes of RDATA
ItemUnknown == <<0, 0, 99, 0, 1, 0, 0, 0, 60, 0, 2, 7, 7>>
\* an A record whose RDLENGTH (4) runs past its two bytes of RDATA
ItemShortRdata == <<0, 0, 1, 0, 1, 0, 0, 0, 60, 0, 4, 10, 0>>
\* a name made of a pointer to itself when it is the first item
ItemSelfPointer == <<192, 12>>

Items == {ItemQuestion, ItemA, ItemCname, ItemUnknown, ItemShortRdata, ItemSelfPointer}

RECURSIVE Bodies(_)
Bodies(n) ==
    IF n = 0 THEN {<<>>}
    ELSE Bodies(n - 1) \cup {b \o it : b \in Bodies(n - 1), it \in Items}

\* the messages of up to n items
Messages(n) ==
    {SubSeq(m, 1, Len(m) - cut) :
        m \in {Header(f, qd, an) \o b :
                 f \in FlagsLow, qd \in 0..MaxQd, an \in 0..MaxAn, b \in Bodies(n)},
        cut \in 0..MaxCut}

ShortBuffers ==
    {SubSeq(Header(f, 1, an), 1, n) : f \in FlagsLow, an \in 0..MaxAn, n \in 0..(HeaderLen - 1)}

(***************************************************************************)
(* Decoder specification: one call of parseDnsResponse on a buffer.        *)
(***************************************************************************)
DecodeInit ==
    /\ response \in Messages(MaxItems) \cup ShortBuffers
    /\ offset = 0
    /\ outcome = NoOutcome
    /\ nameRes = NoName
    /\ codec = "worker"
    /\ PoolQuiet

\* queryDnsRecord: parseDnsResponse(response, domain, recordType)
Decode ==
    /\ outcome.status = "none"
    /\ outcome' = parseDnsResponseOf(codec, response)
    /\ UNCHANGED <<response, offset, nameRes, codec>>
    /\ UNCHANGED poolVars
    /\ UNCHANGED resVars
    /\ UNCHANGED encVars
    /\ UNCHANGED ipVars

DecodeNext == Decode

DecodeSpec == DecodeInit /\ [][DecodeNext]_vars

(***************************************************************************)
(* Name reader specification: one call of parseDnsName on a small buffer   *)
(* at any start offset.                                                    *)
(***************************************************************************)
\* a terminator, label lengths 1 and 2 (also character codes and pointer
\* targets), a length octet above 63, and the pointer octet 0xC0
NameBytes == {0, 1, 2, 65, 192}

\* the copies of the codec
Codecs == {"worker", "cacheproxy", "tokenworker"}

RECURSIVE NameBuffers(_)
NameBuffers(n) ==
    IF n = 0 THEN {<<>>}
    ELSE NameBuffers(n - 1)
         \cup {Append(b, x) : b \in {c \in NameBuffers(n - 1) : Len(c) = n - 1}, x \in NameBytes}

\* a name of n one-octet labels "a" and its terminator
OneOctetLabels(n) ==
    [i \in 1..(2 * n + 1) |-> IF i = 2 * n + 1 THEN 0 ELSE IF i % 2 = 1 THEN 1 ELSE 97]

\* one label of n octets "a" and its terminator
OneLabel(n) == <<n>> \o [i \in 1..n |-> 97] \o <<0>>

\* the name "a", and the name "b" ended by a pointer to it
PointerEnded == <<1, 97, 0, 1, 98, 192, 0>>

\* names around the iteration cap and around the longest label
LongNames ==
    {OneOctetLabels(n) : n \in {LoopCap, LoopCap + 1, MaxNameLabels}}
    \cup {OneLabel(63), OneLabel(64), PointerEnded}

NameInit ==
    /\ response \in NameBuffers(MaxNameBuf) \cup LongNames
    /\ offset \in 0..Len(response)
    /\ outcome = NoOutcome
    /\ nameRes = NoName
    /\ codec \in Codecs
    /\ PoolQuiet

\* parseDnsName(response, offset)
ReadName ==
    /\ nameRes.status = "none"
    /\ nameRes' = parseDnsNameOf(codec, response, offset)
    /\ UNCHANGED <<response, offset, outcome, codec>>
    /\ UNCHANGED poolVars
    /\ UNCHANGED resVars
    /\ UNCHANGED encVars
    /\ UNCHANGED ipVars

NameNext == ReadName

NameSpec == NameInit /\ [][NameNext]_vars

(***************************************************************************)
(* Claims about the decoder and the name reader.                           *)
(***************************************************************************)
Decoded == outcome.status # "none"

\* the header fields as the wire format defines them, read off the buffer
WireRcode == response[4] % 16

WireAncount == response[7] * 256 + response[8]

\* C4: for every response buffer, decode_response returns an outcome whose
\* status is success, no_records or error; it never throws and never reads
\* a byte at an offset outside the buffer.
C4_DecodeTotalAndInBounds ==
    Decoded => /\ outcome.status \in {"success", "no_records", "error"}
               /\ ~outcome.oob

\* C6: read_name never returns a name when a compression pointer it met,
\* at the start position or reached through an earlier pointer, has a
\* target greater than or equal to the pointer's own position.
C6_ForwardPointerRejected ==
    nameRes.loops > 0 =>
        \A i \in 1..Len(nameRes.pointers) :
            nameRes.pointers[i][2] < nameRes.pointers[i][1]

\* C7: with RCODE 0 and ancount > 0, decode_response returns status success
\* with count equal to the header's ancount, however many records parsed.
C7_SuccessCountIsHeaderAncount ==
    (Decoded /\ Len(response) >= 12 /\ WireRcode = 0 /\ WireAncount > 0)
        => (outcome.status = "success" /\ outcome.count = WireAncount)

\* C8: on a buffer shorter than 12 bytes, the empty one included,
\* decode_response returns status error, without throwing and without
\* reading a header field.
C8_ShortBufferIsError ==
    (Decoded /\ Len(response) < 12)
        => (outcome.status = "error" /\ ~outcome.headerRead /\ ~outcome.oob)

C8_Witness == Decoded /\ Len(response) = 0 /\ outcome.status = "error"

\* C9: on a buffer of at least 12 bytes whose flags have a nonzero RCODE,
\* decode_response returns status error whatever ancount and the rest of
\* the message are, and decodes no answer.
C9_NonzeroRcodeIsError ==
    (Decoded /\ Len(response) >= 12 /\ WireRcode # 0)
        => (outcome.status = "error" /\ outcome.answers = <<>>)

C9_Witness ==
    /\ Decoded /\ Len(response) > 12 /\ WireRcode = 3 /\ WireAncount > 0
    /\ outcome.status = "error"

\* C10: on a buffer of at least 12 bytes with RCODE 0 and ancount 0,
\* decode_response returns status no_records with no answers, whatever
\* bytes follow the header.
C10_NoAnswersIsNoRecords ==
    (Decoded /\ Len(response) >= 12 /\ WireRcode = 0 /\ WireAncount = 0)
        => (outcome.status = "no_records" /\ outcome.answers = <<>>)

C10_Witness ==
    /\ Decoded /\ Len(response) > 12 /\ WireRcode = 0 /\ WireAncount = 0
    /\ outcome.status = "no_records"

(***************************************************************************)
(* Claims about the resolver pool.                                         *)
(***************************************************************************)
\* the ways an attempt fails: non-2xx status, transport error, timeout
Failing == {"status", "error", "timeout"}

\* the handler has answered this request from the upstreams, not the cache
Answered == pc = "done" /\ ~reply.cached

\* upstream k is the first that succeeds, after at least one that failed
FirstSuccessAfterFailure(k) ==
    /\ k > 1
    /\ behaviour[k] = "ok"
    /\ \A j \in 1..(k - 1) : behaviour[j] \in Failing

\* C1: when an upstream's attempt ends in a timeout, a transport error or a
\* non-2xx status and a later upstream succeeds within its timeout, the
\* caller gets that later upstream's payload; the earlier failure is never
\* surfaced.
C1_FallbackReturnsLaterPayload ==
    \A k \in Upstreams :
        (Answered /\ FirstSuccessAfterFailure(k))
            => (reply.kind = "response" /\ reply.status = 200 /\ reply.from = k)

\* C2: when every upstream attempt fails, the /dns-query handler answers
\* with HTTP 502 and no exception escapes it.
C2_AllFailedGives502 ==
    (Answered /\ \A i \in Upstreams : behaviour[i] \in Failing)
        => (reply.kind = "response" /\ reply.status = 502)

\* C3: an upstream attempt is bounded by the timeout for its whole duration:
\* while the attempt is in flight (request sent, status awaited, body being
\* read) its timer is armed, so the attempt cannot outlast the timeout.
C3_AttemptBoundedByTimer ==
    pc \in {"fetch", "body"} => idx \in timers


\* ---------------------------------------------------------------------------
\* /resolve without a type: the A lookup and the AAAA lookup
\*   "worker"     handleDomainResolve of the Worker script, two queryDnsRecord
\*                calls joined by Promise.all
\*   "cacheproxy" handleDomainResolve of the caching reverse proxy, two fetch
\*                calls on one AbortController joined by Promise.all
\* ---------------------------------------------------------------------------
ResolveImpls == {"worker", "cacheproxy"}

\* the answer an upstream sends for a lookup: a complete message with one A
\* record, or a message cut after the first byte of its answer
GoodAnswer == Header(128, 1, 1) \o ItemQuestion \o ItemA

CutAnswer == Header(32, 0, 1) \o <<192>>

ResolveBuffers == {GoodAnswer, CutAnswer}

\* the reverse proxy asks UPSTREAM_DOH_SERVERS[0] only
ServersOf(i) == IF i = "cacheproxy" THEN 1 ELSE NumUpstreams

StartLookup(beh, buf) ==
    [pc |-> "fetch", idx |-> 1, timer |-> TRUE, beh |-> beh, buf |-> buf, result |-> "none"]

\* the loop of forwardDnsQueryWithCacheControl moves on, or returns null
nextServer(l) ==
    IF l.idx < NumUpstreams
    THEN [l EXCEPT !.idx = @ + 1, !.pc = "fetch", !.timer = TRUE]
    ELSE [l EXCEPT !.pc = "done", !.timer = FALSE, !.result = "null"]

\* queryDnsRecord hands the bytes to parseDnsResponse
parsedLookup(l) ==
    [l EXCEPT !.pc = "done", !.result = parseDnsResponse(l.buf).status]

ResultsOf(l) == [t \in Lookups |-> l[t].result]

\* Promise.all of the Worker: rejects with the first rejection, resolves when
\* both lookups have; the handler has no catch
workerJoin(l) ==
    IF \E t \in Lookups : l[t].result = "throw"
    THEN [kind |-> "throw", status |-> 0, results |-> [t \in Lookups |-> "none"]]
    ELSE IF \A t \in Lookups : l[t].pc = "done"
         THEN [kind |-> "response", status |-> 200, results |-> ResultsOf(l)]
         ELSE NoResolveReply

Settle(now, joined) == IF now.kind = "none" THEN joined ELSE now

\* the catch block of the reverse proxy
InternalError == [kind |-> "response", status |-> 500, results |-> [t \in Lookups |-> "none"]]

\* after Promise.all: a response that is not ok leaves its result null
readOrNull(l) ==
    IF l.beh[1] = "status"
    THEN [l EXCEPT !.pc = "done", !.result = "null"]
    ELSE [l EXCEPT !.pc = "body"]

\* the bodies are read one after the other, A first
readA(l) ==
    IF l["A"].pc = "resolved" /\ l["AAAA"].pc \in {"resolved", "body", "done"}
    THEN [l EXCEPT !["A"] = readOrNull(@)]
    ELSE l

readAAAA(l) ==
    IF l["A"].pc = "done" /\ l["AAAA"].pc = "resolved"
    THEN [l EXCEPT !["AAAA"] = readOrNull(@)]
    ELSE l

proxyAdvance(l) == readAAAA(readA(l))

proxyJoin(l) ==
    IF \A t \in Lookups : l[t].pc = "done"
    THEN [kind |-> "response", status |-> 200, results |-> ResultsOf(l)]
    ELSE NoResolveReply

ResolveInit ==
    /\ rImpl \in ResolveImpls
    /\ lk \in [Lookups -> {StartLookup(b, r) : b \in [Upstreams -> Behaviours],
                                               r \in ResolveBuffers}]
    /\ sharedTimer = (rImpl = "cacheproxy")
    /\ rReply = NoResolveReply
    /\ PoolIdle
    /\ DecoderQuiet
    /\ EncoderQuiet

ResolveFrame == UNCHANGED <<rImpl, decVars, poolVars, encVars, ipVars>>

\* Worker: the fetch of a lookup resolves; a status that is not ok moves on,
\* otherwise the timer is cleared and the body is awaited
WorkerFetchResolves(t) ==
    /\ rImpl = "worker" /\ lk[t].pc = "fetch"
    /\ lk[t].beh[lk[t].idx] \in {"ok", "status", "bodyerror", "stall"}
    /\ lk' = [lk EXCEPT ![t] = IF @.beh[@.idx] = "status"
                                THEN nextServer(@)
                                ELSE [@ EXCEPT !.pc = "body", !.timer = FALSE]]
    /\ rReply' = Settle(rReply, workerJoin(lk'))
    /\ UNCHANGED sharedTimer
    /\ ResolveFrame

\* Worker: the fetch of a lookup rejects, or its own timer aborts it; the
\* catch block moves on
WorkerFetchFails(t) ==
    /\ rImpl = "worker" /\ lk[t].pc = "fetch" /\ lk[t].timer
    /\ lk[t].beh[lk[t].idx] \in {"error", "timeout"}
    /\ lk' = [lk EXCEPT ![t] = nextServer(@)]
    /\ rReply' = Settle(rReply, workerJoin(lk'))
    /\ UNCHANGED sharedTimer
    /\ ResolveFrame

\* Worker: the body of a lookup arrives and is decoded
WorkerBodyArrives(t) ==
    /\ rImpl = "worker" /\ lk[t].pc = "body"
    /\ lk[t].beh[lk[t].idx] = "ok"
    /\ lk' = [lk EXCEPT ![t] = parsedLookup(@)]
    /\ rReply' = Settle(rReply, workerJoin(lk'))
    /\ UNCHANGED sharedTimer
    /\ ResolveFrame

\* Worker: reading the body of a lookup fails; the catch block moves on
WorkerBodyFails(t) ==
    /\ rImpl = "worker" /\ lk[t].pc = "body"
    /\ lk[t].beh[lk[t].idx] = "bodyerror"
    /\ lk' = [lk EXCEPT ![t] = nextServer(@)]
    /\ rReply' = Settle(rReply, workerJoin(lk'))
    /\ UNCHANGED sharedTimer
    /\ ResolveFrame

\* reverse proxy: one of the two fetches resolves; when both have, the shared
\* timer is cleared and the bodies are read
ProxyFetchResolves(t) ==
    /\ rImpl = "cacheproxy" /\ lk[t].pc = "fetch"
    /\ lk[t].beh[1] \in {"ok", "status", "bodyerror", "stall"}
    /\ lk' = proxyAdvance([lk EXCEPT ![t].pc = "resolved"])
    /\ sharedTimer' = (sharedTimer /\ \E u \in Lookups : lk'[u].pc \in {"fetch", "rejected"})
    /\ rReply' = Settle(rReply, proxyJoin(lk'))
    /\ ResolveFrame

\* reverse proxy: one of the two fetches rejects, Promise.all rejects with it
\* and the catch block answers; the timer is left armed
ProxyFetchRejects(t) ==
    /\ rImpl = "cacheproxy" /\ lk[t].pc = "fetch"
    /\ lk[t].beh[1] = "error"
    /\ lk' = [lk EXCEPT ![t].pc = "rejected"]
    /\ rReply' = Settle(rReply, InternalError)
    /\ UNCHANGED sharedTimer
    /\ ResolveFrame

\* reverse proxy: the shared timer fires while a fetch has not answered;
\* controller.abort() rejects every fetch still in flight
ProxyTimerFires ==
    /\ rImpl = "cacheproxy" /\ sharedTimer
    /\ \E t \in Lookups : lk[t].pc = "fetch"
    /\ \A t \in Lookups : lk[t].pc = "fetch" => lk[t].beh[1] = "timeout"
    /\ lk' = [t \in Lookups |-> IF lk[t].pc = "fetch"
                                THEN [lk[t] EXCEPT !.pc = "rejected"]
                                ELSE lk[t]]
    /\ sharedTimer' = FALSE
    /\ rReply' = Settle(rReply, InternalError)
    /\ ResolveFrame

\* reverse proxy: the body being read arrives and is decoded
ProxyBodyArrives(t) ==
    /\ rImpl = "cacheproxy" /\ lk[t].pc = "body"
    /\ lk[t].beh[1] = "ok"
    /\ lk' = proxyAdvance([lk EXCEPT ![t].pc = "done", ![t].result = "parsed"])
    /\ rReply' = Settle(rReply, proxyJoin(lk'))
    /\ UNCHANGED sharedTimer
    /\ ResolveFrame

\* reverse proxy: reading a body fails and the catch block answers
ProxyBodyFails(t) ==
    /\ rImpl = "cacheproxy" /\ lk[t].pc = "body"
    /\ lk[t].beh[1] = "bodyerror"
    /\ lk' = [lk EXCEPT ![t].pc = "rejected"]
    /\ rReply' = Settle(rReply, InternalError)
    /\ UNCHANGED sharedTimer
    /\ ResolveFrame

ResolveNext ==
    \/ \E t \in Lookups : WorkerFetchResolves(t)
    \/ \E t \in Lookups : WorkerFetchFails(t)
    \/ \E t \in Lookups : WorkerBodyArrives(t)
    \/ \E t \in Lookups : WorkerBodyFails(t)
    \/ \E t \in Lookups : ProxyFetchResolves(t)
    \/ \E t \in Lookups : ProxyFetchRejects(t)
    \/ ProxyTimerFires
    \/ \E t \in Lookups : ProxyBodyArrives(t)
    \/ \E t \in Lookups : ProxyBodyFails(t)

ResolveSpec == ResolveInit /\ [][ResolveNext]_vars

\* ---------------------------------------------------------------------------
\* Claim about the dual lookup
\* ---------------------------------------------------------------------------
ResolveAnswered == rReply.kind # "none"

\* the first upstream of a lookup that gets past its predecessors' failures
\* answers with a complete message
LookupSucceeds(t) ==
    /\ lk[t].buf = GoodAnswer
    /\ \E k \in 1..ServersOf(rImpl) :
          /\ lk[t].beh[k] = "ok"
          /\ \A j \in 1..(k-1) : lk[t].beh[j] \in Failing

\* every upstream of a lookup fails, times out or is aborted
LookupFails(t) == \A k \in 1..ServersOf(rImpl) : lk[t].beh[k] \in Failing

GoodResults == {"success", "parsed"}

\* C5: when one of the A and AAAA lookups succeeds and the other fails, times
\* out or is cancelled, the combined result is a success reply that carries
\* the outcome of the lookup that succeeded and a separate failure outcome
\* for the other one; the failure of one never fails or cancels the other
C5_DualLookupIndependent ==
    \A t, u \in Lookups :
        (ResolveAnswered /\ t # u /\ LookupSucceeds(t) /\ LookupFails(u))
        => /\ rReply.kind = "response"
           /\ rReply.status = 200
           /\ rReply.results[t] \in GoodResults
           /\ rReply.results[u] = "null"


\* ---------------------------------------------------------------------------
\* buildDnsQuery: the query encoder, called by queryDnsRecord
\* ---------------------------------------------------------------------------
\* labels a domain is made of, per domain
MaxLabels == 2

\* String.prototype.toUpperCase on the letters a..z
upperChar(c) == IF c >= 97 /\ c <= 122 THEN c - 32 ELSE c

toUpperCase(text) == [i \in 1..Len(text) |-> upperChar(text[i])]

\* const typeCodes = { A: 1, AAAA: 28, CNAME: 5, NS: 2, TXT: 16, MX: 15 };
\* 0 stands for undefined (no such key)
typeCodes(name) ==
    IF name = <<65>> THEN 1
    ELSE IF name = <<65, 65, 65, 65>> THEN 28
    ELSE IF name = <<67, 78, 65, 77, 69>> THEN 5
    ELSE IF name = <<78, 83>> THEN 2
    ELSE IF name = <<84, 88, 84>> THEN 16
    ELSE IF name = <<77, 88>> THEN 15
    ELSE 0

IsDigit(c) == c >= 48 /\ c <= 57

\* the value of the longest prefix of decimal digits of text from index i
RECURSIVE digitsValue(_, _, _)
digitsValue(text, i, acc) ==
    IF i <= Len(text) /\ IsDigit(text[i])
    THEN digitsValue(text, i + 1, acc * 10 + (text[i] - 48))
    ELSE acc

\* parseInt(text) on text without sign, blanks or radix prefix: the digits it
\* starts with, NaN (-1) when it starts with none
parseInt(text) ==
    IF text # <<>> /\ IsDigit(text[1]) THEN digitsValue(text, 1, 0) ELSE -1

\* typeCodes[recordType.toUpperCase()] || parseInt(recordType)
typeCodeOf(rt) ==
    IF typeCodes(toUpperCase(rt)) # 0 THEN typeCodes(toUpperCase(rt)) ELSE parseInt(rt)

\* TextEncoder.encode of one character below U+0800
utf8Char(c) == IF c < 128 THEN <<c>> ELSE <<192 + (c \div 64), 128 + (c % 64)>>

\* TextEncoder.encode(part), the text encoded half by half
RECURSIVE utf8(_)
utf8(text) ==
    IF text = <<>> THEN <<>>
    ELSE IF Len(text) = 1 THEN utf8Char(text[1])
    ELSE utf8(SubSeq(text, 1, Len(text) \div 2))
         \o utf8(SubSeq(text, Len(text) \div 2 + 1, Len(text)))

\* domain.split('.').map(part => encoder.encode(part))
domainParts(dom) == [i \in 1..Len(splitDot(dom)) |-> utf8(splitDot(dom)[i])]

\* view.setUint16(off, v, false): the two bytes written
setUint16(v) == <<(v % 65536) \div 256, v % 256>>

\* packet[offset++] = part.length; packet.set(part, offset)
RECURSIVE writeLabels(_)
writeLabels(parts) ==
    IF parts = <<>> THEN <<>>
    ELSE <<Len(Head(parts)) % 256>> \o Head(parts) \o writeLabels(Tail(parts))

\* the header: ID, flags 0x0100, QDCOUNT 1, the other counts left 0
queryHeader(id) == setUint16(id) \o <<1, 0>> \o setUint16(1) \o <<0, 0, 0, 0, 0, 0>>

\* buildDnsQuery(domain, recordType); id is the value Math.random() gave
buildDnsQuery(dom, rt, id) ==
    IF typeCodeOf(rt) <= 0
    THEN [status |-> "null", bytes |-> <<>>, sent |-> FALSE]
    ELSE [status |-> "packet",
          bytes |-> queryHeader(id) \o writeLabels(domainParts(dom)) \o <<0>>
                    \o setUint16(typeCodeOf(rt)) \o setUint16(1),
          sent |-> FALSE]


\* label lengths in characters: empty, short, and around the 63-octet limit
\* of a DNS label
LabelLens == {0, 1, 2, 63, 64}

LabelOf(n) == [i \in 1..n |-> 97 + (i % 2)]

\* ASCII labels and one label with a two-byte character (U+00E9)
LabelTexts == {LabelOf(n) : n \in LabelLens} \cup {<<233>>}

RECURSIVE LabelSeqs(_)
LabelSeqs(n) ==
    IF n = 0 THEN {<<>>}
    ELSE LabelSeqs(n - 1) \cup {Append(ls, l) : ls \in LabelSeqs(n - 1), l \in LabelTexts}

\* the domain texts handed to the encoder
Domains == {JoinDot(ls) : ls \in LabelSeqs(MaxLabels) \ {<<>>}}

\* the record type texts handed to the encoder: A, AAAA, CNAME, NS, TXT, MX,
\* SRV, aaaa, PTR, 65, 257, 0, 12a
RecordTypes ==
    { <<65>>, <<65, 65, 65, 65>>, <<67, 78, 65, 77, 69>>, <<78, 83>>, <<84, 88, 84>>,
      <<77, 88>>, <<83, 82, 86>>, <<97, 97, 97, 97>>, <<80, 84, 82>>,
      <<54, 53>>, <<50, 53, 55>>, <<48>>, <<49, 50, 97>> }

\* Math.floor(Math.random() * 65535)
QueryIds == {0, 4660, 65534}

EncodeInit ==
    /\ domain \in Domains
    /\ recordType \in RecordTypes
    /\ packet = NoPacket
    /\ address = NoAddress
    /\ DecoderQuiet
    /\ PoolIdle
    /\ ResolveQuiet

\* queryDnsRecord: const query = buildDnsQuery(domain, recordType)
BuildQuery(id) ==
    /\ packet.status = "none"
    /\ packet' = buildDnsQuery(domain, recordType, id)
    /\ UNCHANGED <<domain, recordType, decVars, poolVars, resVars, ipVars>>

\* queryDnsRecord: if (!query) return null; forwardDnsQuery(query, dnsServers)
Forward ==
    /\ packet.status = "packet"
    /\ ~packet.sent
    /\ packet' = [packet EXCEPT !.sent = TRUE]
    /\ UNCHANGED <<domain, recordType, decVars, poolVars, resVars, ipVars>>

EncodeNext == (\E id \in QueryIds : BuildQuery(id)) \/ Forward

EncodeSpec == EncodeInit /\ [][EncodeNext]_vars


\* ---------------------------------------------------------------------------
\* Claims about the query encoder
\* ---------------------------------------------------------------------------
Built == packet.status # "none"

\* the labels of the domain handed in, as octets
QueryLabels == domainParts(domain)

ValidDomain == \A k \in 1..Len(QueryLabels) : Len(QueryLabels[k]) <= 63

\* the fixed table of the specification: A, AAAA, CNAME, NS, TXT, MX, SRV
TableCode(name) ==
    IF name = <<65>> THEN 1
    ELSE IF name = <<65, 65, 65, 65>> THEN 28
    ELSE IF name = <<67, 78, 65, 77, 69>> THEN 5
    ELSE IF name = <<78, 83>> THEN 2
    ELSE IF name = <<84, 88, 84>> THEN 16
    ELSE IF name = <<77, 88>> THEN 15
    ELSE IF name = <<83, 82, 86>> THEN 33
    ELSE 0

Numeric(text) == text # <<>> /\ \A k \in 1..Len(text) : IsDigit(text[k])

\* the code a record type stands for: the table first, then a numeric value,
\* 0 when neither resolves
WantedCode(rt) ==
    IF TableCode(toUpperCase(rt)) # 0 THEN TableCode(toUpperCase(rt))
    ELSE IF Numeric(rt) /\ digitsValue(rt, 1, 0) < 65536 THEN digitsValue(rt, 1, 0)
    ELSE 0

\* length-prefixed labels
RECURSIVE WireLabels(_)
WireLabels(labels) ==
    IF labels = <<>> THEN <<>>
    ELSE <<Len(Head(labels))>> \o Head(labels) \o WireLabels(Tail(labels))

RECURSIVE SumLabelLens(_)
SumLabelLens(labels) ==
    IF labels = <<>> THEN 0 ELSE Len(Head(labels)) + 1 + SumLabelLens(Tail(labels))

\* the qtype field of the packet built
PacketQtype == packet.bytes[Len(packet.bytes) - 3] * 256 + packet.bytes[Len(packet.bytes) - 2]

\* C11: for a domain whose labels are at most 63 octets and a resolvable
\* record type, the encoder returns a packet of length 12 + sum(len + 1) + 1 + 4:
\* header with flags 0x0100, qdcount 1 and the other counts 0, the
\* length-prefixed labels, a zero octet, the big-endian qtype and qclass 1
C11_QueryLengthAndLayout ==
    (Built /\ ValidDomain /\ WantedCode(recordType) # 0)
    => /\ packet.status = "packet"
       /\ Len(packet.bytes) = 12 + SumLabelLens(QueryLabels) + 1 + 4
       /\ SubSeq(packet.bytes, 3, Len(packet.bytes))
            = <<1, 0, 0, 1, 0, 0, 0, 0, 0, 0>> \o WireLabels(QueryLabels) \o <<0>>
              \o <<WantedCode(recordType) \div 256, WantedCode(recordType) % 256, 0, 1>>

\* C12: a domain with a label longer than 63 octets is rejected: no packet
\* is returned and nothing is forwarded to an upstream
C12_LongLabelRejected ==
    (Built /\ ~ValidDomain) => (packet.status = "null" /\ ~packet.sent)

\* C13: each of A, AAAA, CNAME, NS, TXT, MX, SRV is encoded, with qtype
\* 1, 28, 5, 2, 16, 15, 33 respectively
C13_MnemonicsResolve ==
    (Built /\ ValidDomain /\ TableCode(recordType) # 0)
    => (packet.status = "packet" /\ PacketQtype = TableCode(recordType))

\* C14: for a record type outside the table, a numeric code is written
\* verbatim as the qtype, and a text that is not a number yields no packet
\* and no query
C14_UnknownTypes ==
    (Built /\ ValidDomain /\ TableCode(toUpperCase(recordType)) = 0)
    => /\ (Numeric(recordType) /\ WantedCode(recordType) # 0)
            => (packet.status = "packet" /\ PacketQtype = WantedCode(recordType))
       /\ ~Numeric(recordType) => (packet.status = "null" /\ ~packet.sent)


\* ---------------------------------------------------------------------------
\* parseIPv6 on its own: the RDATA of an AAAA record
\* ---------------------------------------------------------------------------
\* "worker": parseIPv6 of the Worker script; "cacheproxy": the AAAA branch
\* of parseRecordData with compressIPv6 of the caching reverse proxy
Ipv6Impls == {"worker", "cacheproxy"}

\* the 16-bit groups an address is made of: 0, 1, 0x0db8
GroupValues == {0, 1, 3512}

\* every address of these groups, and 2001:db8:0:0:0:0:0:1
Addresses == [1..8 -> GroupValues] \cup {<<8193, 3512, 0, 0, 0, 0, 0, 1>>}

\* the 16 octets of an address
AddressBytes(groups) ==
    [i \in 1..16 |-> IF i % 2 = 1 THEN groups[(i + 1) \div 2] \div 256
                     ELSE groups[i \div 2] % 256]

Ipv6Init ==
    /\ response \in {AddressBytes(g) : g \in Addresses}
    /\ offset = 0
    /\ outcome = NoOutcome
    /\ nameRes = NoName
    /\ codec = "worker"
    /\ address \in {[done |-> FALSE, impl |-> i, text |-> <<>>] : i \in Ipv6Impls}
    /\ domain = <<>>
    /\ recordType = <<>>
    /\ packet = NoPacket
    /\ PoolIdle
    /\ ResolveQuiet

\* the AAAA branch of the answer parser: data = parseIPv6(response, current),
\* or parseRecordData(response, offset, 28, 16)
Canonicalize ==
    /\ ~address.done
    /\ address' = [address EXCEPT !.done = TRUE,
                       !.text = IF address.impl = "worker"
                                THEN parseIPv6(response, offset)
                                ELSE recordDataAAAA(response, offset)]
    /\ UNCHANGED <<decVars, poolVars, resVars, encVars>>

Ipv6Next == Canonicalize

Ipv6Spec == Ipv6Init /\ [][Ipv6Next]_vars

\* ---------------------------------------------------------------------------
\* Claims about the address canonicalizer
\* ---------------------------------------------------------------------------
\* the eight groups of the address in the buffer
Groups == [k \in 1..8 |-> response[2 * k - 1] * 256 + response[2 * k]]

\* the maximal runs of zero groups, as <<first, last>>
ZeroRuns ==
    {r \in (1..8) \X (1..8) :
        /\ r[1] <= r[2]
        /\ \A k \in r[1]..r[2] : Groups[k] = 0
        /\ (r[1] = 1 \/ Groups[r[1] - 1] # 0)
        /\ (r[2] = 8 \/ Groups[r[2] + 1] # 0)}

RunLen(r) == r[2] - r[1] + 1

Elidable == {r \in ZeroRuns : RunLen(r) >= 2}

\* the longest elidable run, the leftmost of them on a tie
BestRun ==
    CHOOSE r \in Elidable :
        \A q \in Elidable : RunLen(r) > RunLen(q) \/ (RunLen(r) = RunLen(q) /\ r[1] <= q[1])

LowerHex(d) == IF d < 10 THEN 48 + d ELSE 97 + (d - 10)

\* a group in lowercase hex without leading zeros
HexText(n) ==
    IF n >= 4096 THEN <<LowerHex(n \div 4096), LowerHex((n \div 256) % 16),
                        LowerHex((n \div 16) % 16), LowerHex(n % 16)>>
    ELSE IF n >= 256 THEN <<LowerHex(n \div 256), LowerHex((n \div 16) % 16), LowerHex(n % 16)>>
    ELSE IF n >= 16 THEN <<LowerHex(n \div 16), LowerHex(n % 16)>>
    ELSE <<LowerHex(n)>>

\* the positions of the text where two colons follow each other
DoubleColons(text) == {k \in 1..(Len(text) - 1) : text[k] = 58 /\ text[k + 1] = 58}

StartsWithElision(text) == Len(text) >= 2 /\ SubSeq(text, 1, 2) = <<58, 58>>

EndsWithElision(text) == Len(text) >= 2 /\ SubSeq(text, Len(text) - 1, Len(text)) = <<58, 58>>

\* C15: the elided run is rendered as exactly one "::" wherever it lies: the
\* all-zero address is "::", a run at the start gives a text beginning with
\* "::" (0:0:0:0:0:0:0:1 is "::1"), a run at the end a text ending with "::",
\* and 2001:0db8:0:0:0:0:0:1 is "2001:db8::1"
C15_ElisionIsOneDoubleColon ==
    address.done =>
        /\ Cardinality(DoubleColons(address.text)) = (IF Elidable = {} THEN 0 ELSE 1)
        /\ (\A k \in 1..8 : Groups[k] = 0) => address.text = <<58, 58>>
        /\ (Elidable # {} /\ BestRun[1] = 1) => StartsWithElision(address.text)
        /\ (Elidable # {} /\ BestRun[2] = 8) => EndsWithElision(address.text)
        /\ Groups = <<0, 0, 0, 0, 0, 0, 0, 1>> => address.text = <<58, 58, 49>>
        /\ Groups = <<8193, 3512, 0, 0, 0, 0, 0, 1>>
            => address.text = <<50, 48, 48, 49, 58, 100, 98, 56, 58, 58, 49>>

\* the fields of a text between its colons
colonsOf(text) == {i \in 1..Len(text) : text[i] = 58} \cup {0, Len(text) + 1}

ColonFields(text) ==
    [k \in 1..(Cardinality(colonsOf(text)) - 1) |->
        SubSeq(text, nthOf(colonsOf(text), k - 1) + 1, nthOf(colonsOf(text), k) - 1)]

NonEmptyField(f) == f # <<>>

\* the groups that are kept, printed, in order
KeptTexts ==
    IF Elidable = {} THEN [k \in 1..8 |-> HexText(Groups[k])]
    ELSE [k \in 1..(BestRun[1] - 1) |-> HexText(Groups[k])]
         \o [k \in 1..(8 - BestRun[2]) |-> HexText(Groups[BestRun[2] + k])]

\* C16: exactly the longest run of at least two zero groups is elided, the
\* leftmost one on a tie; no other zero group is elided and every group that
\* is kept is printed in lowercase hex without leading zeros: the fields of
\* the text that are not empty are the kept groups in order, and the gap
\* opens where the run starts
C16_LongestLeftmostRunElided ==
    address.done =>
        /\ SelectSeq(ColonFields(address.text), NonEmptyField) = KeptTexts
        /\ IF Elidable = {}
           THEN Len(ColonFields(address.text)) = 8
           ELSE /\ Len(ColonFields(address.text)) >= BestRun[1]
                /\ ColonFields(address.text)[BestRun[1]] = <<>>
                /\ \A k \in 1..(BestRun[1] - 1) : ColonFields(address.text)[k] # <<>>

\* an address was canonicalized that has two longest runs of the same length
\* and a zero group on its own
C16_Witness ==
    /\ address.done
    /\ \E r, q \in Elidable : r # q /\ RunLen(r) = RunLen(q) /\ RunLen(r) = RunLen(BestRun)
    /\ \E r \in ZeroRuns : RunLen(r) = 1


\* ---------------------------------------------------------------------------
\* Claim about records of an unsupported type
\* ---------------------------------------------------------------------------
\* the types that have an RDATA variant: A, AAAA, CNAME, NS, MX, TXT, SRV
SupportedTypes == {1, 28, 5, 2, 15, 16, 33}

NoWalk == [ok |-> FALSE, records |-> <<>>]

\* the records of the answer section as the wire format lays them out: each
\* starts where the one before it ends, rdlength bytes after its RDATA begins
RECURSIVE WireWalk(_, _, _, _)
RECURSIVE WireStep(_, _, _, _, _)
WireWalk(buf, off, left, acc) ==
    IF left = 0 THEN [ok |-> TRUE, records |-> acc]
    ELSE WireStep(buf, off, skipDnsName(buf, off), left, acc)

WireStep(buf, off, nameEnd, left, acc) ==
    IF nameEnd + 10 > Len(buf) THEN NoWalk
    ELSE IF nameEnd + 10 + getUint16(buf, nameEnd + 8) > Len(buf) THEN NoWalk
    ELSE WireWalk(buf, nameEnd + 10 + getUint16(buf, nameEnd + 8), left - 1,
            Append(acc, [at |-> off, type |-> getUint16(buf, nameEnd),
                         rdlength |-> getUint16(buf, nameEnd + 8),
                         next |-> nameEnd + 10 + getUint16(buf, nameEnd + 8)]))

\* the answer records of a response whose header announces them and whose
\* buffer holds every one of them in full
WireRecords ==
    IF Len(response) >= 12 /\ WireRcode = 0 /\ WireAncount > 0
    THEN WireWalk(response,
            skipQuestions(response, 12, response[5] * 256 + response[6]),
            WireAncount, <<>>)
    ELSE NoWalk

Relayed == pc = "done" /\ reply.kind = "response" /\ reply.status = 200 /\ ~reply.cached

\* max(60, min(m, 300)) for max-age=m, 300 without a max-age directive
ClampedTtl(c) ==
    IF c.present /\ c.maxAge >= 0
    THEN (IF c.maxAge < 60 THEN 60 ELSE IF c.maxAge > 300 THEN 300 ELSE c.maxAge)
    ELSE 300

\* C18: the cache TTL given to the caller with a successful upstream
\* response lies in [60, 300]: max(60, min(m, 300)) when the upstream sent
\* max-age=m, and 300 when it sent no max-age
C18_TtlClamped ==
    Relayed => (reply.ttl >= 60 /\ reply.ttl <= 300 /\ reply.ttl = ClampedTtl(cc))


\* ---------------------------------------------------------------------------
\* Round trip: queryDnsRecord builds a query, a stub upstream echoes it with
\* one answer, parseDnsResponse decodes the answer
\* ---------------------------------------------------------------------------
\* most labels a domain of the round trip has
MaxRtLabels == 22

\* a domain of n one-letter labels
Repeated(n) == JoinDot([k \in 1..n |-> <<97 + (k % 2)>>])

\* domains of 1, 2 and about twenty labels, one label of 63 octets, and one
\* label with a two-byte character
RtDomains ==
    {Repeated(n) : n \in {1, 2, MaxRtLabels - 2, MaxRtLabels - 1, MaxRtLabels}}
    \cup {LabelOf(63), <<233>>}

\* A, AAAA, CNAME, NS, TXT, MX, SRV
RtTypes ==
    { <<65>>, <<65, 65, 65, 65>>, <<67, 78, 65, 77, 69>>, <<78, 83>>, <<84, 88, 84>>,
      <<77, 88>>, <<83, 82, 86>> }

\* the RDATA the stub appends for a record of the type asked for; names in
\* it are pointers to the question name at offset 12
StubRdata(type) ==
    IF type = 1 THEN <<10, 0, 0, 1>>
    ELSE IF type = 28 THEN AddressBytes(<<8193, 3512, 0, 0, 0, 0, 0, 1>>)
    ELSE IF type = 5 \/ type = 2 THEN <<192, 12>>
    ELSE IF type = 16 THEN <<2, 104, 105>>
    ELSE IF type = 15 THEN <<0, 10, 192, 12>>
    ELSE <<0, 1, 0, 2, 0, 80, 192, 12>>

\* the response of the stub: the query with ancount 1 and one answer record
\* for the question name, written in full or as a pointer to offset 12
StubResponse(query, full) ==
    [query EXCEPT ![8] = 1]
    \o (IF full THEN SubSeq(query, 13, Len(query) - 4) ELSE <<192, 12>>)
    \o SubSeq(query, Len(query) - 3, Len(query))
    \o <<0, 0, 0, 60>>
    \o setUint16(Len(StubRdata(query[Len(query) - 3] * 256 + query[Len(query) - 2])))
    \o StubRdata(query[Len(query) - 3] * 256 + query[Len(query) - 2])

RoundTripInit ==
    /\ domain \in RtDomains
    /\ recordType \in RtTypes
    /\ packet = NoPacket
    /\ address = NoAddress
    /\ DecoderQuiet
    /\ PoolIdle
    /\ ResolveQuiet

\* the stub upstream answers the query that was forwarded
Echo(full) ==
    /\ packet.sent
    /\ response = <<>>
    /\ response' = StubResponse(packet.bytes, full)
    /\ UNCHANGED <<offset, outcome, nameRes, codec, poolVars, resVars, encVars, ipVars>>

\* queryDnsRecord: parseDnsResponse(response, domain, recordType)
DecodeReply == response # <<>> /\ Decode

RoundTripNext ==
    \/ \E id \in QueryIds : BuildQuery(id)
    \/ Forward
    \/ \E full \in BOOLEAN : Echo(full)
    \/ DecodeReply

RoundTripSpec == RoundTripInit /\ [][RoundTripNext]_vars

\* the typed RDATA of the record the stub appended
ExpectedData(type) ==
    IF type = 1 THEN [kind |-> "A", v |-> <<10, 0, 0, 1>>]
    ELSE IF type = 28
    THEN [kind |-> "AAAA", v |-> <<50, 48, 48, 49, 58, 100, 98, 56, 58, 58, 49>>]
    ELSE IF type = 5 \/ type = 2 THEN [kind |-> "name", v |-> domain]
    ELSE IF type = 16 THEN [kind |-> "TXT", v |-> <<104, 105>>]
    ELSE IF type = 15 THEN [kind |-> "MX", v |-> <<10>> \o domain]
    ELSE [kind |-> "SRV", v |-> <<1, 2, 80>> \o domain]

\* C19: for a domain of labels of 1 to 63 octets and a supported record
\* type, the query is built, and the response made from it with ancount 1
\* and one answer for that name (in full or as a pointer to offset 12)
\* decodes to one answer whose name is the domain and whose data is the
\* typed RDATA that was appended
C19_RoundTrip ==
    /\ Built => packet.status = "packet"
    /\ Decoded => /\ outcome.status = "success"
                  /\ Len(outcome.answers) = 1
                  /\ outcome.answers[1].name = domain
                  /\ outcome.answers[1].data = ExpectedData(TableCode(recordType))


\* ---------------------------------------------------------------------------
\* Claim about the order of the attempts
\* ---------------------------------------------------------------------------
\* the attempt to upstream k of this request ended in failure
AttemptFailed(k) ==
    \/ behaviour[k] \in Failing
    \/ impl = "worker" /\ behaviour[k] = "bodyerror"

\* C20: the upstreams are contacted in list order with at most one attempt
\* outstanding: the attempt in flight is the last one started, every
\* upstream before it was tried and failed, and after the first success no
\* further upstream is contacted
C20_OrderedOneAtATime ==
    /\ \A k \in 1..Len(contacted) : contacted[k] = k
    /\ pc \in {"fetch", "body"} => idx = Len(contacted)
    /\ \A k \in 1..(Len(contacted) - 1) : AttemptFailed(k)
    /\ Relayed => reply.from = Len(contacted)

\* the first upstream failed and the handler answered from the second
C20_Witness ==
    /\ Relayed
    /\ contacted = <<1, 2>>
    /\ reply.from = 2

(***************************************************************************)
(* Claims about the name reader, for each copy of parseDnsName.            *)
(***************************************************************************)
\* parseDnsName has been called
NameRead == nameRes.status # "none"

\* C21: read_name terminates on every buffer and every start offset, also
\* when compression pointers form a cycle or point at themselves: the call
\* returns, and it reads no more labels than the iteration cap allows.
C21_ReadNameTerminates ==
    NameRead => /\ nameRes.status # "overflow"
                /\ Len(nameRes.labels) <= LoopCap + 1

\* C22: when read_name meets a compression pointer, the next_offset it
\* returns is the position of the first pointer met plus 2; the labels read
\* after that pointer and the further pointers followed never change it.
C22_FirstPointerSetsResume ==
    (nameRes.status = "ok" /\ nameRes.pointers # <<>>)
        => nameRes.nextOffset = nameRes.pointers[1][1] + 2

\* the loop reader followed a pointer, read a label behind it and followed
\* a further pointer
C22_Witness ==
    /\ codec = "worker"
    /\ nameRes.status = "ok"
    /\ Len(nameRes.pointers) >= 2
    /\ nameRes.labels # <<>>
    /\ nameRes.nextOffset = nameRes.pointers[1][1] + 2

\* the length octet of an ordinary label at the start offset
FirstLabelLen ==
    IF offset < Len(response) /\ ~IsPointer(response[offset + 1])
    THEN response[offset + 1] ELSE 0

\* C23: read_name accepts an ordinary label only when its length octet is at
\* most 63 and all its bytes lie inside the buffer: with a length octet in
\* 64..191, or a label that runs past the end of the buffer, it fails and
\* returns no name.
C23_BadLabelRejected ==
    (NameRead /\ FirstLabelLen > 0
        /\ (FirstLabelLen > 63 \/ offset + 1 + FirstLabelLen > Len(response)))
        => nameRes.status # "ok"

\* the name that starts at off is well formed: labels of 1 to 63 octets
\* inside the buffer, at most 255 octets, ended by a zero octet or, when
\* mayPoint, by one pointer to an earlier well-formed name without pointer
RECURSIVE WellFormedName(_, _, _, _)
WellFormedName(buf, off, total, mayPoint) ==
    /\ off < Len(buf)
    /\ IF buf[off + 1] = 0 THEN total + 1 <= 255
       ELSE IF IsPointer(buf[off + 1])
       THEN /\ mayPoint
            /\ off + 1 < Len(buf)
            /\ PointerTarget(buf[off + 1], buf[off + 2]) < off
            /\ WellFormedName(buf, PointerTarget(buf[off + 1], buf[off + 2]),
                              total + 2, FALSE)
       ELSE /\ buf[off + 1] <= 63
            /\ off + 1 + buf[off + 1] <= Len(buf)
            /\ WellFormedName(buf, off + 1 + buf[off + 1],
                              total + 1 + buf[off + 1], mayPoint)

\* the labels of the well-formed name that starts at off, in wire order
RECURSIVE NameOnWire(_, _)
NameOnWire(buf, off) ==
    IF buf[off + 1] = 0 THEN <<>>
    ELSE IF IsPointer(buf[off + 1])
    THEN NameOnWire(buf, PointerTarget(buf[off + 1], buf[off + 2]))
    ELSE <<SubSeq(buf, off + 2, off + 1 + buf[off + 1])>>
         \o NameOnWire(buf, off + 1 + buf[off + 1])

\* the offset just past a well-formed name: past its terminating zero, or
\* past the two octets of the pointer that ends it
RECURSIVE EndOnWire(_, _)
EndOnWire(buf, off) ==
    IF buf[off + 1] = 0 THEN off + 1
    ELSE IF IsPointer(buf[off + 1]) THEN off + 2
    ELSE EndOnWire(buf, off + 1 + buf[off + 1])

\* C26: for every well-formed name inside the buffer, read_name returns all
\* labels of the name in order, and when the name has no pointer next_offset
\* is the offset just past the terminating zero octet; the iteration cap
\* never truncates a well-formed name.
C26_WellFormedNameReadWhole ==
    (NameRead /\ WellFormedName(response, offset, 0, TRUE))
        => /\ nameRes.status = "ok"
           /\ nameRes.name = JoinDot(NameOnWire(response, offset))
           /\ ~nameRes.capped
           /\ WellFormedName(response, offset, 0, FALSE)
                => nameRes.nextOffset = EndOnWire(response, offset)

(***************************************************************************)
(* Both copies of the decoder on the same responses: a header with RCODE   *)
(* 0, any QDCOUNT and ANCOUNT, up to MaxItems items, up to MaxCut bytes    *)
(* cut off the end.                                                        *)
(***************************************************************************)
DecoderCodecs == {"worker", "cacheproxy"}

\* the messages of up to n items
CopiesMessages(n) ==
    {SubSeq(m, 1, Len(m) - cut) :
        m \in {Header(128, qd, an) \o b :
                 qd \in 0..MaxQd, an \in 0..MaxAn, b \in Bodies(n)},
        cut \in 0..MaxCut}

CopiesInit ==
    /\ response \in CopiesMessages(MaxItems)
    /\ offset = 0
    /\ outcome = NoOutcome
    /\ nameRes = NoName
    /\ codec \in DecoderCodecs
    /\ PoolQuiet

CopiesNext == Decode

CopiesSpec == CopiesInit /\ [][CopiesNext]_vars

\* QDCOUNT as the wire format defines it
WireQdcount == response[5] * 256 + response[6]

\* the first byte after left well-formed questions that start at off, each a
\* name and 4 bytes of QTYPE and QCLASS; -1 when the buffer does not hold them
RECURSIVE QuestionsEnd(_, _, _)
QuestionsEnd(buf, off, left) ==
    IF left = 0 THEN off
    ELSE IF ~WellFormedName(buf, off, 0, TRUE) THEN -1
    ELSE IF EndOnWire(buf, off) + 4 > Len(buf) THEN -1
    ELSE QuestionsEnd(buf, EndOnWire(buf, off) + 4, left - 1)

\* where the answer section starts
AnswersStart == QuestionsEnd(response, HeaderLen, WireQdcount)

\* the record at off lies inside the buffer in full
RecordWhole(buf, off) ==
    /\ WellFormedName(buf, off, 0, TRUE)
    /\ EndOnWire(buf, off) + 10 <= Len(buf)
    /\ EndOnWire(buf, off) + 10 + getUint16(buf, EndOnWire(buf, off) + 8) <= Len(buf)

\* a response with RCODE 0 and ANCOUNT > 0 was decoded
AnswersDecoded ==
    Decoded /\ Len(response) >= HeaderLen /\ WireRcode = 0 /\ WireAncount > 0

\* C24: before decoding answers, decode_response skips exactly qdcount
\* questions (a name and 4 bytes each): for every qdcount, 0 and 2 or more
\* included, the first answer record is read at the first byte after the
\* last question.
C24_SkipsQdcountQuestions ==
    (AnswersDecoded /\ AnswersStart >= 0 /\ RecordWhole(response, AnswersStart))
        => /\ Len(outcome.answers) >= 1
           /\ outcome.answers[1].at = AnswersStart

\* the start offsets of the records that lie in the buffer in full, from off
\* on, up to the first record that does not or until left records are found
RECURSIVE WholeRecords(_, _, _, _)
WholeRecords(buf, off, left, acc) ==
    IF left = 0 \/ ~RecordWhole(buf, off) THEN acc
    ELSE WholeRecords(buf,
            EndOnWire(buf, off) + 10 + getUint16(buf, EndOnWire(buf, off) + 8),
            left - 1, Append(acc, off))

\* C25: answers are decoded in wire order and decoding stops at the first
\* record-level error (bad name, fewer than 10 bytes left for the fixed
\* fields, rdlength past the end of the buffer): the answers returned are
\* exactly the records before the failing one, in wire order, at most
\* ancount of them, and none after it.
C25_StopsAtFirstBadRecord ==
    (AnswersDecoded /\ AnswersStart >= 0)
        => /\ outcome.status = "success"
           /\ [k \in 1..Len(outcome.answers) |-> outcome.answers[k].at]
                = WholeRecords(response, AnswersStart, WireAncount, <<>>)

(***************************************************************************)
(* Claims about the response caches of the two caching handlers.           *)
(***************************************************************************)
\* the caching /dns-query proxy on its own: it never waits for a body, so
\* BodyArrives and BodyFails are no steps of it
ProxyInit == PoolInit /\ impl = "proxy"

ProxyNext ==
    \/ \E m \in Methods, k \in Keys, beh \in [Upstreams -> Behaviours] : Receive(m, k, beh)
    \/ \E c \in CacheControls : FetchResolves(c)
    \/ FetchRejects
    \/ TimerFires
    \/ \E i \in Upstreams : StaleTimerFires(i)
    \/ \E p \in pending : CachePut(p)
    \/ \E p \in pending : CachePutRejects(p)
    \/ NextRequest

ProxySpec == ProxyInit /\ [][ProxyNext]_vars

\* one step of the caching /dns-query proxy: what it hands to cache.put,
\* what reaches the cache, what a POST reads, what a failure writes
ProxyCacheStep ==
    impl = "proxy" =>
        /\ \A p \in pending' \ pending :
              /\ p.method = "GET" /\ method = "GET" /\ p.key = key
              /\ behaviour[idx] \notin {"status", "error", "timeout"}
              /\ p.status = 200
              /\ p.ttl = ClampedTtl(cc')
        /\ \A e \in cache'.default \ cache.default :
              \E p \in pending :
                 /\ p.method = "GET" /\ p.key = e.key
                 /\ p.status = e.status /\ p.ttl = e.ttl
        /\ cache'.named = cache.named
        /\ (pc = "idle" /\ pc' # "idle" /\ method' = "POST")
              => (~reply'.cached /\ contacted' = <<1>>)
        /\ (method = "POST" /\ pc # "idle") => (pending' \subseteq pending)
        /\ (reply' # reply /\ (reply'.status = 502 \/ reply'.kind = "throw"))
              => (pending' = pending /\ cache' = cache)

\* C27: in the caching /dns-query proxy every entry of the response cache
\* was written for a GET request whose upstream attempt returned 2xx and
\* carries max-age equal to the clamped TTL; a POST request never reads the
\* cache and never writes to it, and a failed request writes nothing.
C27_CacheHoldsGoodGetsOnly == [][ProxyCacheStep]_vars

\* a POST for a key that is in the cache, with max-age raised to the lower
\* limit, was answered by an upstream and handed nothing to the cache
C27_Witness ==
    /\ impl = "proxy"
    /\ method = "POST"
    /\ pc = "done"
    /\ reply.status = 200
    /\ ~reply.cached
    /\ pending = {}
    /\ \E e \in cache.default : e.key = key /\ e.ttl = MIN_CACHE_TTL_SECONDS

\* a request arrives at the caching reverse proxy for a key whose response
\* an earlier request stored: it is answered from the cache, no upstream
\* is contacted
StoredKeyStep ==
    (/\ impl = "cacheproxy"
     /\ pc = "idle" /\ pc' # "idle"
     /\ method' = "GET"
     /\ \E e \in cache.default \cup cache.named : e.key = key')
        => (reply'.cached /\ contacted' = <<>>)

\* C28: in the caching reverse proxy, once the successful response to a
\* request has been stored in the cache, a later request with the same
\* cache key is answered from the cache without any upstream being
\* contacted.
C28_StoredResponseServedFromCache == [][StoredKeyStep]_vars

====
